---- MODULE Spec2Model ----
(***************************************************************************)
(* A model of the thunderdome generational arena (src/src/arena.rs,        *)
(* generation.rs, free_pointer.rs, iterators.rs).                          *)
(*                                                                         *)
(* Storage slot s of the Rust Vec is storage[s + 1] here.  Option<T> is a  *)
(* sequence of length 0 (None) or 1 (Some).  A FreePointer is its raw      *)
(* NonZeroU32, that is slot + 1.  A reference handed out by get_mut is the *)
(* slot whose value it points to.                                          *)
(***************************************************************************)
EXTENDS Integers, Sequences, FiniteSets, TLC

VARIABLES storage, len, first_free, drain, iter, ret, bits, stale,
          removal_order, drain_from, max_len, held

vars == <<storage, len, first_free, drain, iter, ret, bits, stale,
          removal_order, drain_from, max_len,
          held>>

(***************************************************************************)
(* Program constants and the bounds of the model.                          *)
(***************************************************************************)
\* u32::MAX in the arithmetic on len, scaled down so that an arena can be
\* filled to it.  It is above MaxSlots: only the specification that lets
\* the storage grow beyond MaxSlots entries, SpecCapacity, reaches it.
LenMax == 4

\* u32::MAX in the slot arithmetic: the same number as for len, so that
\* U32Max is the last slot a storage of SpecCapacity has, and is beyond the
\* storage of every other specification.
U32Max == LenMax

\* u32::MAX in the generation arithmetic, scaled down so that a slot's
\* generation can be advanced all the way to the wrap-around.
GenMax == 2

MaxSlots == 3

MaxVal == 2

\* The width in bits of a u32 in the encoding of an Index (32 in the code),
\* scaled down; a u64 has twice as many.  The encoding does no arithmetic on
\* a generation, so its width is scaled apart from GenMax.
IndexBits == 2

U32Mod == 2 ^ IndexBits

U64Mod == U32Mod * U32Mod

\* Every u64.
BitsInputs == 0 .. U64Mod - 1

Values == 1 .. MaxVal

GenInputs == 1 .. GenMax

SlotInputs == 0 .. MaxSlots

None == << >>

Some(x) == << x >>

is_some(o) == Len(o) = 1

unwrap(o) == o[1]

(***************************************************************************)
(* generation.rs                                                           *)
(***************************************************************************)
Generation_first == 1

\* next that does not advance.
Generation_next_same(g) == g

\* next that wraps to the reserved value.
Generation_next_wrap_zero(g) == IF g = GenMax THEN 0 ELSE g + 1

Generation_next(g) == IF g = GenMax THEN 1 ELSE g + 1

Generation_to_u32(g) == g

\* from_u32 that accepts zero.
Generation_from_u32_any(gen) == Some(gen)

\* NonZeroU32::new(gen).map(Generation)
Generation_from_u32(gen) == IF gen = 0 THEN None ELSE Some(gen)

(***************************************************************************)
(* free_pointer.rs                                                         *)
(***************************************************************************)
FreePointer_from_slot_panics(slot) == slot = U32Max

FreePointer_from_slot(slot) == slot + 1

FreePointer_slot(fp) == fp - 1

(***************************************************************************)
(* arena.rs: Index, Entry, Arena                                           *)
(***************************************************************************)
Index(slot, generation) == [slot |-> slot, generation |-> generation]

IndexInputs == [slot : SlotInputs, generation : GenInputs]

\* Every value of the type Index: any u32 as slot, any NonZeroU32 as
\* generation.
EncodableIndexes == [slot : 0 .. U32Mod - 1, generation : 1 .. U32Mod - 1]

\* u64 operators: a | b, x << n, x >> n, and the casts `as u64`, `as u32`.
RECURSIVE BitOr(_, _)
BitOr(a, b) ==
    IF a = 0 THEN b
    ELSE IF b = 0 THEN a
    ELSE (IF a % 2 = 1 \/ b % 2 = 1 THEN 1 ELSE 0)
             + 2 * BitOr(a \div 2, b \div 2)

Shl(x, n) == (x * 2 ^ n) % U64Mod

Shr(x, n) == x \div 2 ^ n

as_u64(x) == x

as_u32(x) == x % U32Mod

\* to_bits that leaves the generation in the low half.
to_bits_unshifted(self) ==
    BitOr(as_u64(Generation_to_u32(self.generation)), as_u64(self.slot))

to_bits(self) ==
    BitOr(Shl(as_u64(Generation_to_u32(self.generation)), IndexBits),
          as_u64(self.slot))

from_bits(b) ==
    LET generation == Generation_from_u32(as_u32(Shr(b, IndexBits))) IN
    IF ~ is_some(generation)
    THEN None
    ELSE LET slot == as_u32(b) IN
         Some(Index(slot, unwrap(generation)))

Occupied(generation, value) ==
    [tag |-> "Occupied", generation |-> generation, value |-> value]

Empty(generation, next_free) ==
    [tag |-> "Empty", generation |-> generation, next_free |-> next_free]

Arena(s, l, f) == [storage |-> s, len |-> l, first_free |-> f]

Arena_new == Arena(<< >>, 0, None)

Self == Arena(storage, len, first_free)

\* The outcome of one call: the arena it leaves, what it returns, and
\* whether it panicked.
Outcome(a, out, panic) == [arena |-> a, out |-> out, panic |-> panic]

\* Vec::get / Vec::get_mut
storage_get(self, slot) ==
    IF slot < Len(self.storage) THEN Some(self.storage[slot + 1]) ELSE None

is_occupied(self, slot) ==
    /\ slot < Len(self.storage)
    /\ self.storage[slot + 1].tag = "Occupied"

is_empty_entry(self, slot) ==
    /\ slot < Len(self.storage)
    /\ self.storage[slot + 1].tag = "Empty"

Arena_len(self) == self.len

Arena_is_empty(self) == self.len = 0

\* insert with the reused slot's generation left as it was.
insert_keep_generation(self, value) ==
    IF self.len = LenMax
    THEN Outcome(self, None, TRUE)
    ELSE LET a1 == [self EXCEPT !.len = self.len + 1] IN
         IF is_some(a1.first_free)
         THEN LET slot == FreePointer_slot(unwrap(a1.first_free)) IN
              IF ~ is_empty_entry(a1, slot)
              THEN Outcome(a1, None, TRUE)
              ELSE LET empty == a1.storage[slot + 1]
                       generation == empty.generation
                   IN  Outcome([a1 EXCEPT
                                   !.first_free = empty.next_free,
                                   !.storage[slot + 1] =
                                       Occupied(generation, value)],
                               Index(slot, generation), FALSE)
         ELSE Outcome([a1 EXCEPT !.storage =
                          Append(a1.storage,
                                 Occupied(Generation_first, value))],
                      Index(Len(a1.storage), Generation_first), FALSE)

\* insert that never looks at the free list.
insert_append_only(self, value) ==
    IF self.len = LenMax
    THEN Outcome(self, None, TRUE)
    ELSE LET a1 == [self EXCEPT !.len = self.len + 1] IN
         Outcome([a1 EXCEPT !.storage =
                     Append(a1.storage, Occupied(Generation_first, value))],
                 Index(Len(a1.storage), Generation_first), FALSE)

\* insert whose len wraps around instead of panicking.
insert_wrapping(self, value) ==
    LET a1 == [self EXCEPT !.len = (self.len + 1) % (LenMax + 1)] IN
    IF is_some(a1.first_free)
    THEN LET slot == FreePointer_slot(unwrap(a1.first_free)) IN
         IF ~ is_empty_entry(a1, slot)
         THEN Outcome(a1, None, TRUE)
         ELSE LET empty == a1.storage[slot + 1]
                  generation == Generation_next(empty.generation)
              IN  Outcome([a1 EXCEPT
                              !.first_free = empty.next_free,
                              !.storage[slot + 1] =
                                  Occupied(generation, value)],
                          Index(slot, generation), FALSE)
    ELSE Outcome([a1 EXCEPT !.storage =
                     Append(a1.storage, Occupied(Generation_first, value))],
                 Index(Len(a1.storage), Generation_first), FALSE)

insert(self, value) ==
    IF self.len = LenMax
    THEN Outcome(self, None, TRUE)
    ELSE LET a1 == [self EXCEPT !.len = self.len + 1] IN
         IF is_some(a1.first_free)
         THEN LET slot == FreePointer_slot(unwrap(a1.first_free)) IN
              IF ~ is_empty_entry(a1, slot)
              THEN Outcome(a1, None, TRUE)
              ELSE LET empty == a1.storage[slot + 1]
                       generation == Generation_next(empty.generation)
                   IN  Outcome([a1 EXCEPT
                                   !.first_free = empty.next_free,
                                   !.storage[slot + 1] =
                                       Occupied(generation, value)],
                               Index(slot, generation), FALSE)
         ELSE LET generation == Generation_first
                  slot == Len(a1.storage)
              IN  IF slot > U32Max
                  THEN Outcome(a1, None, TRUE)
                  ELSE Outcome([a1 EXCEPT !.storage =
                                   Append(a1.storage,
                                          Occupied(generation, value))],
                               Index(slot, generation), FALSE)

contains(self, index) ==
    /\ is_occupied(self, index.slot)
    /\ self.storage[index.slot + 1].generation = index.generation

\* get without the generation check.
get_any_generation(self, index) ==
    LET e == storage_get(self, index.slot) IN
    IF is_some(e) /\ unwrap(e).tag = "Occupied"
    THEN Some(unwrap(e).value)
    ELSE None

get(self, index) ==
    LET e == storage_get(self, index.slot) IN
    IF is_some(e) /\ unwrap(e).tag = "Occupied"
                  /\ unwrap(e).generation = index.generation
    THEN Some(unwrap(e).value)
    ELSE None

\* get_mut without the generation check.
get_mut_any_generation(self, index) ==
    LET e == storage_get(self, index.slot) IN
    IF is_some(e) /\ unwrap(e).tag = "Occupied"
    THEN Some(index.slot)
    ELSE None

get_mut(self, index) ==
    LET e == storage_get(self, index.slot) IN
    IF is_some(e) /\ unwrap(e).tag = "Occupied"
                  /\ unwrap(e).generation = index.generation
    THEN Some(index.slot)
    ELSE None

\* Reading and writing through a reference obtained from get_mut.
deref(self, r) == self.storage[r + 1].value

write(self, r, value) == [self EXCEPT !.storage[r + 1].value = value]

\* remove that does not link the freed entry to the previous first_free.
remove_forget_next(self, index) ==
    LET e == storage_get(self, index.slot) IN
    IF ~ is_some(e)
    THEN Outcome(self, None, FALSE)
    ELSE LET occupied == unwrap(e) IN
         IF occupied.tag = "Occupied" /\ occupied.generation = index.generation
         THEN Outcome([self EXCEPT
                          !.storage[index.slot + 1] =
                              Empty(occupied.generation, None),
                          !.first_free =
                              Some(FreePointer_from_slot(index.slot)),
                          !.len = self.len - 1],
                      Some(occupied.value), FALSE)
         ELSE Outcome(self, None, FALSE)

\* remove that advances the generation at removal.
remove_bump_generation(self, index) ==
    LET e == storage_get(self, index.slot) IN
    IF ~ is_some(e)
    THEN Outcome(self, None, FALSE)
    ELSE LET occupied == unwrap(e) IN
         IF occupied.tag = "Occupied" /\ occupied.generation = index.generation
         THEN Outcome([self EXCEPT
                          !.storage[index.slot + 1] =
                              Empty(Generation_next(occupied.generation),
                                    self.first_free),
                          !.first_free =
                              Some(FreePointer_from_slot(index.slot)),
                          !.len = self.len - 1],
                      Some(occupied.value), FALSE)
         ELSE Outcome(self, None, FALSE)

remove(self, index) ==
    LET e == storage_get(self, index.slot) IN
    IF ~ is_some(e)
    THEN Outcome(self, None, FALSE)
    ELSE LET occupied == unwrap(e) IN
         IF occupied.tag = "Occupied" /\ occupied.generation = index.generation
         THEN LET a1 == [self EXCEPT !.storage[index.slot + 1] =
                            Empty(occupied.generation, self.first_free)]
              IN  IF FreePointer_from_slot_panics(index.slot)
                  THEN Outcome(a1, None, TRUE)
                  ELSE LET a2 == [a1 EXCEPT !.first_free =
                                    Some(FreePointer_from_slot(index.slot))]
                       IN  IF a2.len = 0
                           THEN Outcome(a2, None, TRUE)
                           ELSE Outcome([a2 EXCEPT !.len = a2.len - 1],
                                        Some(occupied.value), FALSE)
         ELSE Outcome(self, None, FALSE)

\* invalidate without the generation check.
invalidate_any_generation(self, index) ==
    LET e == storage_get(self, index.slot) IN
    IF ~ is_some(e)
    THEN Outcome(self, None, FALSE)
    ELSE LET occupied == unwrap(e) IN
         IF occupied.tag = "Occupied"
         THEN LET generation == Generation_next(occupied.generation) IN
              Outcome([self EXCEPT
                          !.storage[index.slot + 1].generation = generation],
                      Some(Index(index.slot, generation)), FALSE)
         ELSE Outcome(self, None, FALSE)

invalidate(self, index) ==
    LET e == storage_get(self, index.slot) IN
    IF ~ is_some(e)
    THEN Outcome(self, None, FALSE)
    ELSE LET occupied == unwrap(e) IN
         IF occupied.tag = "Occupied" /\ occupied.generation = index.generation
         THEN LET generation == Generation_next(occupied.generation) IN
              Outcome([self EXCEPT
                          !.storage[index.slot + 1].generation = generation],
                      Some(Index(index.slot, generation)), FALSE)
         ELSE Outcome(self, None, FALSE)

\* get2_mut without the check for identical indices.
get2_mut_unchecked(self, index1, index2) ==
    LET item1 == get_mut(self, index1)
        item2 == get_mut(self, index2)
    IN  Outcome(self, << item1, item2 >>, FALSE)

get2_mut(self, index1, index2) ==
    IF index1 = index2
    THEN Outcome(self, None, TRUE)
    ELSE LET item1 == get_mut(self, index1)
             item2 == get_mut(self, index2)
         IN  Outcome(self, << item1, item2 >>, FALSE)

\* The loop of remove_slot_from_free_list: the slot holding the pointer to
\* `slot` (None when that pointer is first_free), or a panic.
RECURSIVE free_list_walk(_, _, _, _)
free_list_walk(self, slot, next_fp, current_slot) ==
    IF FreePointer_slot(next_fp) = slot
    THEN [panic |-> FALSE, current_slot |-> current_slot]
    ELSE LET s == FreePointer_slot(next_fp) IN
         IF ~ is_empty_entry(self, s)
         THEN [panic |-> TRUE, current_slot |-> None]
         ELSE IF ~ is_some(self.storage[s + 1].next_free)
         THEN [panic |-> TRUE, current_slot |-> None]
         ELSE free_list_walk(self, slot,
                             unwrap(self.storage[s + 1].next_free), Some(s))

\* remove_slot_from_free_list that fixes the pointer at the root whatever
\* the place of the slot in the list.
remove_slot_from_free_list_at_root(self, slot, new_next_free) ==
    IF ~ is_some(self.first_free)
    THEN Outcome(self, None, TRUE)
    ELSE Outcome([self EXCEPT !.first_free = new_next_free], None, FALSE)

remove_slot_from_free_list(self, slot, new_next_free) ==
    IF ~ is_some(self.first_free)
    THEN Outcome(self, None, TRUE)
    ELSE LET w == free_list_walk(self, slot, unwrap(self.first_free), None) IN
         IF w.panic
         THEN Outcome(self, None, TRUE)
         ELSE IF is_some(w.current_slot)
         THEN Outcome([self EXCEPT
                          !.storage[unwrap(w.current_slot) + 1].next_free =
                              new_next_free],
                      None, FALSE)
         ELSE Outcome([self EXCEPT !.first_free = new_next_free], None, FALSE)

\* The while loop that pushes the placeholders without linking them.
RECURSIVE extend_storage_unlinked(_, _, _)
extend_storage_unlinked(st, first, slot) ==
    IF Len(st) < slot
    THEN extend_storage_unlinked(Append(st, Empty(Generation_first, None)),
                                 Some(FreePointer_from_slot(Len(st))), slot)
    ELSE [storage |-> st, first_free |-> first]

\* The while loop of insert_at_inner's third case: push Empty placeholders
\* until storage reaches `slot` entries, threading each onto first_free.
RECURSIVE extend_storage(_, _, _)
extend_storage(st, first, slot) ==
    IF Len(st) < slot
    THEN extend_storage(Append(st, Empty(Generation_first, first)),
                        Some(FreePointer_from_slot(Len(st))), slot)
    ELSE [storage |-> st, first_free |-> first]

\* The final length update of insert_at_inner.
\* The length update without the test for a replaced value.
insert_at_len_always(a, index, old_value) ==
    IF a.len = LenMax
    THEN Outcome(a, None, TRUE)
    ELSE Outcome([a EXCEPT !.len = a.len + 1], << index, old_value >>, FALSE)

insert_at_len(a, index, old_value) ==
    IF is_some(old_value)
    THEN Outcome(a, << index, old_value >>, FALSE)
    ELSE IF a.len = LenMax
    THEN Outcome(a, None, TRUE)
    ELSE Outcome([a EXCEPT !.len = a.len + 1], << index, old_value >>, FALSE)

\* insert_at_inner that forgets the value it replaces.
insert_at_inner_drop_old(self, slot, generation, value) ==
    LET e == storage_get(self, slot) IN
    IF is_some(e) /\ unwrap(e).tag = "Empty"
    THEN LET empty == unwrap(e)
             gen == IF is_some(generation) THEN unwrap(generation)
                    ELSE Generation_next(empty.generation)
             new_next_free == empty.next_free
             r == remove_slot_from_free_list(self, slot, new_next_free)
         IN  IF r.panic
             THEN Outcome(r.arena, None, TRUE)
             ELSE insert_at_len([r.arena EXCEPT !.storage[slot + 1] =
                                    Occupied(gen, value)],
                                Index(slot, gen), None)
    ELSE IF is_some(e)
    THEN LET occupied == unwrap(e)
             gen == IF is_some(generation) THEN unwrap(generation)
                    ELSE Generation_next(occupied.generation)
         IN  insert_at_len([self EXCEPT !.storage[slot + 1] =
                               Occupied(gen, value)],
                           Index(slot, gen), None)
    ELSE LET x == extend_storage(self.storage, self.first_free, slot)
             gen == IF is_some(generation) THEN unwrap(generation)
                    ELSE Generation_first
         IN  insert_at_len([self EXCEPT
                               !.first_free = x.first_free,
                               !.storage = Append(x.storage,
                                                  Occupied(gen, value))],
                           Index(slot, gen), None)

insert_at_inner(self, slot, generation, value) ==
    LET e == storage_get(self, slot) IN
    IF is_some(e) /\ unwrap(e).tag = "Empty"
    THEN LET empty == unwrap(e)
             gen == IF is_some(generation) THEN unwrap(generation)
                    ELSE Generation_next(empty.generation)
             new_next_free == empty.next_free
             r == remove_slot_from_free_list(self, slot, new_next_free)
         IN  IF r.panic
             THEN Outcome(r.arena, None, TRUE)
             ELSE insert_at_len([r.arena EXCEPT !.storage[slot + 1] =
                                    Occupied(gen, value)],
                                Index(slot, gen), None)
    ELSE IF is_some(e)
    THEN LET occupied == unwrap(e)
             gen == IF is_some(generation) THEN unwrap(generation)
                    ELSE Generation_next(occupied.generation)
         IN  insert_at_len([self EXCEPT !.storage[slot + 1] =
                               Occupied(gen, value)],
                           Index(slot, gen), Some(occupied.value))
    ELSE LET x == extend_storage(self.storage, self.first_free, slot)
             gen == IF is_some(generation) THEN unwrap(generation)
                    ELSE Generation_first
         IN  insert_at_len([self EXCEPT
                               !.first_free = x.first_free,
                               !.storage = Append(x.storage,
                                                  Occupied(gen, value))],
                           Index(slot, gen), None)

\* insert_at that advances the slot's generation as insert_at_slot does.
insert_at_next_generation(self, index, value) ==
    LET r == insert_at_inner(self, index.slot, None, value)
    IN  IF r.panic THEN r ELSE Outcome(r.arena, r.out[2], FALSE)

insert_at(self, index, value) ==
    LET r == insert_at_inner(self, index.slot, Some(index.generation), value)
    IN  IF r.panic THEN r ELSE Outcome(r.arena, r.out[2], FALSE)

\* insert_at_slot that starts every entry at the first generation.
insert_at_slot_first_generation(self, slot, value) ==
    insert_at_inner(self, slot, Some(Generation_first), value)

insert_at_slot(self, slot, value) == insert_at_inner(self, slot, None, value)

contains_slot(self, slot) ==
    IF is_occupied(self, slot)
    THEN Some(Index(slot, self.storage[slot + 1].generation))
    ELSE None

get_by_slot(self, slot) ==
    IF is_occupied(self, slot)
    THEN Some(<< Index(slot, self.storage[slot + 1].generation),
                 self.storage[slot + 1].value >>)
    ELSE None

\* remove_by_slot that bumps the generation of the entry it frees.
remove_by_slot_bump_generation(self, slot) ==
    LET e == storage_get(self, slot) IN
    IF is_some(e) /\ unwrap(e).tag = "Occupied"
    THEN LET occupied == unwrap(e) IN
         Outcome([self EXCEPT
                     !.storage[slot + 1] =
                         Empty(Generation_next(occupied.generation),
                               self.first_free),
                     !.first_free = Some(FreePointer_from_slot(slot)),
                     !.len = self.len - 1],
                 Some(<< Index(slot, occupied.generation), occupied.value >>),
                 FALSE)
    ELSE Outcome(self, None, FALSE)

remove_by_slot(self, slot) ==
    LET e == storage_get(self, slot) IN
    IF ~ is_some(e)
    THEN Outcome(self, None, FALSE)
    ELSE LET occupied == unwrap(e) IN
         IF occupied.tag = "Occupied"
         THEN LET index == Index(slot, occupied.generation)
                  a1 == [self EXCEPT !.storage[slot + 1] =
                            Empty(occupied.generation, self.first_free)]
              IN  IF FreePointer_from_slot_panics(slot)
                  THEN Outcome(a1, None, TRUE)
                  ELSE LET a2 == [a1 EXCEPT !.first_free =
                                    Some(FreePointer_from_slot(slot))]
                       IN  IF a2.len = 0
                           THEN Outcome(a2, None, TRUE)
                           ELSE Outcome([a2 EXCEPT !.len = a2.len - 1],
                                        Some(<< index, occupied.value >>),
                                        FALSE)
         ELSE Outcome(self, None, FALSE)

\* retain's loop from storage position i on; f[i] is what the predicate
\* returns for the entry in slot i, and `calls` lists the indices the
\* predicate has been called with so far.  The outcome's `out` is that list.
\* The predicate of the model decides only; it writes nothing through the
\* &mut T it is given.
RECURSIVE retain_from(_, _, _, _)
retain_from(self, f, i, calls) ==
    IF i >= Len(self.storage)
    THEN Outcome(self, calls, FALSE)
    ELSE LET entry == self.storage[i + 1] IN
         IF entry.tag = "Occupied"
         THEN LET index == Index(i, entry.generation)
                  called == Append(calls, index)
              IN  IF ~ f[i]
                  THEN LET a1 == [self EXCEPT !.storage[i + 1] =
                                     Empty(entry.generation, self.first_free)]
                       IN  IF FreePointer_from_slot_panics(index.slot)
                           THEN Outcome(a1, called, TRUE)
                           ELSE LET a2 == [a1 EXCEPT !.first_free =
                                        Some(FreePointer_from_slot(index.slot))]
                                IN  IF a2.len = 0
                                    THEN Outcome(a2, called, TRUE)
                                    ELSE retain_from(
                                             [a2 EXCEPT !.len = a2.len - 1],
                                             f, i + 1, called)
                  ELSE retain_from(self, f, i + 1, called)
         ELSE retain_from(self, f, i + 1, calls)

\* retain that removes the entries the predicate accepts.
retain_inverted(self, f) ==
    retain_from(self, [s \in DOMAIN f |-> ~ f[s]], 0, << >>)

retain(self, f) == retain_from(self, f, 0, << >>)

(***************************************************************************)
(* iterators.rs: Drain                                                     *)
(***************************************************************************)
\* Drain::next calls remove_entry_by_slot, which arena.rs does not define.
\* It is taken to be remove_by_slot, the call IntoIter::next makes at the
\* same place of the same loop and the only method of arena.rs with its
\* signature.
remove_entry_by_slot(self, slot) == remove_by_slot(self, slot)

\* Drain::next that gives up at the first slot without a value.
Drain_next_stop_at_empty(self, slot) ==
    IF Arena_is_empty(self)
    THEN [arena |-> self, slot |-> slot, out |-> None, panic |-> FALSE]
    ELSE LET r == remove_entry_by_slot(self, slot) IN
         [arena |-> r.arena, slot |-> slot + 1, out |-> r.out,
          panic |-> r.panic]

\* One call of Drain::next with the iterator's cursor at `slot`.
RECURSIVE Drain_next(_, _)
Drain_next(self, slot) ==
    IF Arena_is_empty(self)
    THEN [arena |-> self, slot |-> slot, out |-> None, panic |-> FALSE]
    ELSE IF slot = U32Max
    THEN [arena |-> self, slot |-> slot, out |-> None, panic |-> TRUE]
    ELSE LET r == remove_entry_by_slot(self, slot) IN
         IF r.panic
         THEN [arena |-> r.arena, slot |-> slot + 1, out |-> None,
               panic |-> TRUE]
         ELSE IF is_some(r.out)
         THEN [arena |-> r.arena, slot |-> slot + 1, out |-> r.out,
               panic |-> FALSE]
         ELSE Drain_next(r.arena, slot + 1)

\* for_each(drop): call next until it returns None.
RECURSIVE Drain_for_each_drop(_, _)
Drain_for_each_drop(self, slot) ==
    LET r == Drain_next(self, slot) IN
    IF r.panic
    THEN Outcome(r.arena, None, TRUE)
    ELSE IF is_some(r.out)
    THEN Drain_for_each_drop(r.arena, r.slot)
    ELSE Outcome(r.arena, None, FALSE)

\* clear that throws the storage away.
clear_reset(self) == Outcome(Arena_new, None, FALSE)

clear(self) == Drain_for_each_drop(self, 0)

Drain_size_hint(self) == << Arena_len(self), Some(Arena_len(self)) >>

(***************************************************************************)
(* iter/iter.rs, iter/iter_mut.rs, iter/into_iter.rs                       *)
(***************************************************************************)
\* The fields of an Iter or an IterMut.  `inner`, the slice iterator, is the
\* pair front, back: it still covers storage slots front .. back - 1.  An
\* IntoIter has the field slot alone, beside the arena it owns.
IterState(l, s, front, back) ==
    [len |-> l, slot |-> s, front |-> front, back |-> back]

Arena_iter(self) == IterState(self.len, 0, 0, Len(self.storage))

Arena_iter_mut(self) == IterState(self.len, 0, 0, Len(self.storage))

Arena_into_iter(self) == IterState(0, 0, 0, 0)

\* One call of next or next_back: the iterator it leaves, the item it
\* returns, and whether it panicked.
IterResult(it, out, panic) == [iter |-> it, out |-> out, panic |-> panic]

RECURSIVE Iter_next(_, _)
Iter_next(self, it) ==
    IF it.len = 0 \/ it.slot > it.len
    THEN IterResult(it, None, FALSE)
    ELSE IF it.slot = U32Max
    THEN IterResult(it, None, TRUE)
    ELSE LET slot == it.slot
             it1 == [it EXCEPT !.slot = slot + 1]
         IN  IF it1.front >= it1.back
             THEN IterResult(it1, None, FALSE)
             ELSE LET entry == self.storage[it1.front + 1]
                      it2 == [it1 EXCEPT !.front = @ + 1]
                  IN  IF entry.tag = "Empty"
                      THEN Iter_next(self, it2)
                      ELSE IterResult([it2 EXCEPT !.len = @ - 1],
                                      Some(<< Index(slot, entry.generation),
                                              entry.value >>),
                                      FALSE)

RECURSIVE Iter_next_back(_, _)
Iter_next_back(self, it) ==
    IF it.len = 0 \/ it.slot > it.len
    THEN IterResult(it, None, FALSE)
    ELSE IF it.slot + (it.len - 1) > U32Max
    THEN IterResult(it, None, TRUE)
    ELSE LET slot == it.slot + (it.len - 1) IN
         IF it.front >= it.back
         THEN IterResult(it, None, FALSE)
         ELSE LET entry == self.storage[it.back]
                  it1 == [it EXCEPT !.back = @ - 1]
              IN  IF entry.tag = "Empty"
                  THEN Iter_next_back(self, it1)
                  ELSE IterResult([it1 EXCEPT !.len = @ - 1],
                                  Some(<< Index(slot, entry.generation),
                                          entry.value >>),
                                  FALSE)

Iter_size_hint(it) == << it.len, Some(it.len) >>

\* The item of an IterMut is the index and a reference: the slot whose
\* value it points to.
RECURSIVE IterMut_next(_, _)
IterMut_next(self, it) ==
    IF it.len = 0
    THEN IterResult(it, None, FALSE)
    ELSE IF it.slot = U32Max
    THEN IterResult(it, None, TRUE)
    ELSE LET slot == it.slot
             it1 == [it EXCEPT !.slot = slot + 1]
         IN  IF it1.front >= it1.back
             THEN IterResult(it1, None, FALSE)
             ELSE LET entry == self.storage[it1.front + 1]
                      it2 == [it1 EXCEPT !.front = @ + 1]
                  IN  IF entry.tag = "Empty"
                      THEN IterMut_next(self, it2)
                      ELSE IterResult([it2 EXCEPT !.len = @ - 1],
                                      Some(<< Index(slot, entry.generation),
                                              it1.front >>),
                                      FALSE)

IterMut_size_hint(it) == << it.len, Some(it.len) >>

\* IntoIter::next that gives up at the first slot without a value.
IntoIter_next_stop_at_empty(self, slot) ==
    IF Arena_is_empty(self)
    THEN [arena |-> self, slot |-> slot, out |-> None, panic |-> FALSE]
    ELSE LET r == remove_by_slot(self, slot) IN
         [arena |-> r.arena, slot |-> slot + 1, out |-> r.out,
          panic |-> r.panic]

\* One call of IntoIter::next with the iterator's cursor at `slot`, on the
\* arena the iterator owns.
RECURSIVE IntoIter_next(_, _)
IntoIter_next(self, slot) ==
    IF Arena_is_empty(self)
    THEN [arena |-> self, slot |-> slot, out |-> None, panic |-> FALSE]
    ELSE IF slot = U32Max
    THEN [arena |-> self, slot |-> slot, out |-> None, panic |-> TRUE]
    ELSE LET r == remove_by_slot(self, slot) IN
         IF r.panic
         THEN [arena |-> r.arena, slot |-> slot + 1, out |-> None,
               panic |-> TRUE]
         ELSE IF is_some(r.out)
         THEN [arena |-> r.arena, slot |-> slot + 1, out |-> r.out,
               panic |-> FALSE]
         ELSE IntoIter_next(r.arena, slot + 1)

IntoIter_size_hint(self) == << Arena_len(self), Some(Arena_len(self)) >>

(***************************************************************************)
(* drain_filter.rs: DrainFilter                                            *)
(***************************************************************************)
\* The item is the index and a reference: the slot whose value it points to.
get_by_slot_mut(self, slot) ==
    IF is_occupied(self, slot)
    THEN Some(<< Index(slot, self.storage[slot + 1].generation), slot >>)
    ELSE None

\* DrainFilter::next and size_hint call len_storage, and the test calls
\* Arena::drain_filter; arena.rs defines neither.  They are taken to be the
\* number of storage entries, and the DrainFilter with its cursor at slot 0.
len_storage(self) == Len(self.storage)

Arena_drain_filter(self) == IterState(0, 0, 0, 0)

\* The predicates a DrainFilter is given: what the predicate answers for the
\* value of each slot.
PredicateInputs == [0 .. MaxSlots - 1 -> BOOLEAN]

\* DrainFilter::next that does not ask the predicate.
RECURSIVE DrainFilter_next_ignore_predicate(_, _, _)
DrainFilter_next_ignore_predicate(self, slot, predicate) ==
    IF slot >= len_storage(self)
    THEN [arena |-> self, slot |-> slot, out |-> None, panic |-> FALSE]
    ELSE LET item == get_by_slot_mut(self, slot) IN
         IF is_some(item)
         THEN LET r == remove(self, unwrap(item)[1]) IN
              [arena |-> r.arena, slot |-> slot + 1,
               out |-> Some(<< unwrap(item)[1], unwrap(r.out) >>),
               panic |-> FALSE]
         ELSE DrainFilter_next_ignore_predicate(self, slot + 1, predicate)

\* One call of DrainFilter::next with the iterator's cursor at `slot`.
RECURSIVE DrainFilter_next(_, _, _)
DrainFilter_next(self, slot, predicate) ==
    IF slot >= len_storage(self)
    THEN [arena |-> self, slot |-> slot, out |-> None, panic |-> FALSE]
    ELSE IF slot = U32Max
    THEN [arena |-> self, slot |-> slot, out |-> None, panic |-> TRUE]
    ELSE LET item == get_by_slot_mut(self, slot) IN
         IF is_some(item) /\ predicate[unwrap(item)[2]]
         THEN LET r == remove(self, unwrap(item)[1]) IN
              IF r.panic \/ ~ is_some(r.out)
              THEN [arena |-> r.arena, slot |-> slot + 1, out |-> None,
                    panic |-> TRUE]
              ELSE [arena |-> r.arena, slot |-> slot + 1,
                    out |-> Some(<< unwrap(item)[1], unwrap(r.out) >>),
                    panic |-> FALSE]
         ELSE DrainFilter_next(self, slot + 1, predicate)

(***************************************************************************)
(* feature_serde.rs: Serialize and Deserialize for Arena                   *)
(***************************************************************************)
\* The accessors storage(), Entry::generation() and Entry::value(), and
\* push_slot, are called by feature_serde.rs and defined nowhere in src/.
\* The accessors are taken to read the field of their name (value() an
\* Option, absent for an Empty entry).  push_slot is taken to append one
\* entry: Occupied, counted in len, for a value; Empty, put at the head of
\* the free list, for none, which is the storage the tests of
\* feature_serde.rs expect (test free_list).
Arena_storage(self) == self.storage

Entry_generation(entry) == entry.generation

Entry_value(entry) ==
    IF entry.tag = "Occupied" THEN Some(entry.value) ELSE None

\* push_slot that keeps an Empty entry off the free list.
push_slot_unlinked(self, generation, value) ==
    IF is_some(value)
    THEN Arena(Append(self.storage, Occupied(generation, unwrap(value))),
               self.len + 1, self.first_free)
    ELSE Arena(Append(self.storage, Empty(generation, None)),
               self.len, self.first_free)

\* push_slot that does not count the value.
push_slot_uncounted(self, generation, value) ==
    IF is_some(value)
    THEN Arena(Append(self.storage, Occupied(generation, unwrap(value))),
               self.len, self.first_free)
    ELSE Arena(Append(self.storage, Empty(generation, self.first_free)),
               self.len,
               Some(FreePointer_from_slot(Len(self.storage))))

push_slot(self, generation, value) ==
    IF is_some(value)
    THEN Arena(Append(self.storage, Occupied(generation, unwrap(value))),
               self.len + 1, self.first_free)
    ELSE Arena(Append(self.storage, Empty(generation, self.first_free)),
               self.len,
               Some(FreePointer_from_slot(Len(self.storage))))

Arena_with_capacity(capacity) == Arena(<< >>, 0, None)

\* serialize that leaves the Empty entries out.
serialize_occupied_only(self) ==
    LET all == [i \in 1 .. Len(Arena_storage(self)) |->
                   << Generation_to_u32(Entry_generation(Arena_storage(self)[i])),
                      Entry_value(Arena_storage(self)[i]) >>]
    IN  SelectSeq(all, LAMBDA pair : is_some(pair[2]))

\* The sequence Serialize writes: one (generation, value) per entry.
serialize(self) ==
    [i \in 1 .. Len(Arena_storage(self)) |->
        << Generation_to_u32(Entry_generation(Arena_storage(self)[i])),
           Entry_value(Arena_storage(self)[i]) >>]

\* Result<Arena<T>, D::Error>
Ok(arena) == [ok |-> TRUE, arena |-> Some(arena)]

Err == [ok |-> FALSE, arena |-> None]

\* deserialize that skips a pair of generation 0.
RECURSIVE deserialize_skip_invalid(_, _, _)
deserialize_skip_invalid(arena, sequence, i) ==
    IF i > Len(sequence)
    THEN Ok(arena)
    ELSE LET generation == Generation_from_u32(sequence[i][1]) IN
         IF ~ is_some(generation)
         THEN deserialize_skip_invalid(arena, sequence, i + 1)
         ELSE deserialize_skip_invalid(push_slot(arena, unwrap(generation),
                                                 sequence[i][2]),
                                       sequence, i + 1)

\* The loop of deserialize from pair i of `sequence` on.
RECURSIVE deserialize_from(_, _, _)
deserialize_from(arena, sequence, i) ==
    IF i > Len(sequence)
    THEN Ok(arena)
    ELSE LET generation == Generation_from_u32(sequence[i][1]) IN
         IF ~ is_some(generation)
         THEN Err
         ELSE deserialize_from(push_slot(arena, unwrap(generation),
                                         sequence[i][2]),
                               sequence, i + 1)

deserialize(sequence) ==
    deserialize_from(Arena_with_capacity(Len(sequence)), sequence, 1)

\* The sequences given to deserialize: up to MaxSlots pairs of any u32 up to
\* GenMax, zero included, and an optional value.
PairInputs == (0 .. GenMax) \X ({None} \cup {Some(value) : value \in Values})

SequenceInputs == UNION {[1 .. n -> PairInputs] : n \in 0 .. MaxSlots}

(***************************************************************************)
(* The state machine.  `drain` is None, or Some(slot) while a Drain        *)
(* iterator with that cursor borrows the arena; `iter` is None, or the     *)
(* live Iter, IterMut, IntoIter or DrainFilter; `ret` is what the last     *)
(* call returned, and `bits` the u64 last passed to from_bits or obtained  *)
(* by to_bits from the index in `ret`.  `stale`, `removal_order`,          *)
(* `drain_from`, `max_len` and `held` are history variables: an index the  *)
(* caller kept after remove(index) returned its value, with the number of  *)
(* later inserts that reused its slot (counted up to GenMax); the slots    *)
(* freed by a removal and not reused since, oldest first; the arena as it  *)
(* was when drain() was called, kept until the call after the last of the  *)
(* Drain; the largest len the arena has had; and an index the caller kept  *)
(* when insert, insert_at_slot or invalidate returned it, with whether     *)
(* contains has rejected it since, given up when a generation wraps.       *)
(***************************************************************************)
\* What a call returned: whether it panicked, and the index, the value and
\* the references among its results (each an Option; `refs` holds one Option
\* per reference slot of the result).  `error` is set when deserialize
\* returned Err, and `wire` is the sequence serialize wrote or deserialize
\* was given.
Ret(op, panic, index, value, refs) ==
    [op |-> op, panic |-> panic, index |-> index, value |-> value,
     refs |-> refs, error |-> FALSE, wire |-> None]

\* The first / second component of an Option<(Index, T)>.
pair_index(o) == IF is_some(o) THEN Some(unwrap(o)[1]) ELSE None

pair_value(o) == IF is_some(o) THEN Some(unwrap(o)[2]) ELSE None

\* The model stops a step that would leave its bounds.
Bounded(a) == Len(a.storage) <= MaxSlots

\* A generation of `after` is below the one the slot had in `before`.
Wrapped(before, after) ==
    \E s \in 0 .. Len(before.storage) - 1 :
        /\ s < Len(after.storage)
        /\ after.storage[s + 1].generation < before.storage[s + 1].generation

\* The record of a kept index after a call that turned `before` into
\* `after`: `died` is set once the index is not in the arena, and the record
\* is given up when a generation wraps.
Track(h, before, after) ==
    IF ~ is_some(h) THEN None
    ELSE IF Wrapped(before, after) THEN None
    ELSE Some([unwrap(h) EXCEPT
                  !.died = @ \/ ~ contains(after, unwrap(h).index)])

\* The arena goes on as `a`.
Commit(a) ==
    /\ storage' = a.storage
    /\ len' = a.len
    /\ first_free' = a.first_free
    /\ max_len' = IF a.len > max_len THEN a.len ELSE max_len
    /\ held' = Track(held, Arena(storage, len, first_free), a)

\* The program goes on with another arena, `a`.
Replace(a) ==
    /\ storage' = a.storage
    /\ len' = a.len
    /\ first_free' = a.first_free
    /\ max_len' = a.len
    /\ held' = None

SlotSeq(n) == [i \in 1 .. n |-> i - 1]

TrackRemovals(order, before, after) ==
    SelectSeq(order, LAMBDA s : ~ is_occupied(after, s))
        \o SelectSeq(SlotSeq(Len(before.storage)),
                     LAMBDA s : is_occupied(before, s) /\ ~ is_occupied(after, s))

Call(op, r, index, value, refs) ==
    /\ drain = None
    /\ iter = None
    /\ Bounded(r.arena)
    /\ Commit(r.arena)
    /\ ret' = IF r.panic THEN Ret(op, TRUE, None, None, << >>)
              ELSE Ret(op, FALSE, index, value, refs)
    /\ removal_order' = TrackRemovals(removal_order, Self, r.arena)
    /\ bits' = None
    /\ drain_from' = None
    /\ UNCHANGED << drain, iter >>

Init ==
    /\ storage = Arena_new.storage
    /\ len = Arena_new.len
    /\ first_free = Arena_new.first_free
    /\ drain = None
    /\ iter = None
    /\ ret = Ret("new", FALSE, None, None, << >>)
    /\ bits = None
    /\ stale = None
    /\ removal_order = << >>
    /\ drain_from = None
    /\ max_len = 0
    /\ held = None

\* A kept index counts the inserts that reuse its slot.
Insert(value) ==
    /\ LET r == insert(Self, value) IN
       Call("insert", r, Some(r.out), None, << >>)
    /\ stale' = IF /\ is_some(stale)
                   /\ ~ insert(Self, value).panic
                   /\ insert(Self, value).out.slot = unwrap(stale).index.slot
                THEN Some([unwrap(stale) EXCEPT
                              !.reuses = IF @ < GenMax THEN @ + 1 ELSE @])
                ELSE stale

\* `ret` keeps the index insert_at was called with beside what it returns.
InsertAt(index, value) ==
    /\ LET r == insert_at(Self, index, value) IN
       Call("insert_at", r, Some(index), r.out, << >>)
    /\ UNCHANGED stale

InsertAtSlot(slot, value) ==
    /\ LET r == insert_at_slot(Self, slot, value) IN
       Call("insert_at_slot", r, Some(r.out[1]), r.out[2], << >>)
    /\ UNCHANGED stale

Get(index) ==
    /\ LET r == Outcome(Self, get(Self, index), FALSE) IN
       Call("get", r, None, r.out, << >>)
    /\ UNCHANGED stale

\* get_mut(index), then a write of `value` through the reference.
GetMut(index, value) ==
    /\ LET item == get_mut(Self, index) IN
       Call("get_mut",
            Outcome(IF is_some(item) THEN write(Self, unwrap(item), value)
                    ELSE Self,
                    item, FALSE),
            None, None, << item >>)
    /\ UNCHANGED stale

\* get2_mut(index1, index2), then a write through each reference obtained:
\* value1 through the first, then value2 through the second.
get2_mut_write(self, index1, index2, value1, value2) ==
    LET r == get2_mut(self, index1, index2)
        a1 == IF ~ r.panic /\ is_some(r.out[1])
              THEN write(r.arena, unwrap(r.out[1]), value1) ELSE r.arena
        a2 == IF ~ r.panic /\ is_some(r.out[2])
              THEN write(a1, unwrap(r.out[2]), value2) ELSE a1
    IN  Outcome(a2, r.out, r.panic)

Get2Mut(index1, index2, value1, value2) ==
    /\ LET r == get2_mut_write(Self, index1, index2, value1, value2) IN
       Call("get2_mut", r, None, None, r.out)
    /\ UNCHANGED stale

Remove(index) ==
    /\ LET r == remove(Self, index) IN
       Call("remove", r, None, r.out, << >>)
    /\ UNCHANGED stale

\* remove(index) returns a value, and the caller keeps the index.
RemoveKeep(index) ==
    /\ stale = None
    /\ is_some(remove(Self, index).out)
    /\ LET r == remove(Self, index) IN
       Call("remove", r, None, r.out, << >>)
    /\ stale' = Some([index |-> index, reuses |-> 0])

RemoveBySlot(slot) ==
    /\ LET r == remove_by_slot(Self, slot) IN
       Call("remove_by_slot", r, pair_index(r.out), pair_value(r.out), << >>)
    /\ UNCHANGED stale

Invalidate(index) ==
    /\ LET r == invalidate(Self, index) IN
       Call("invalidate", r, r.out, None, << >>)
    /\ UNCHANGED stale

Retain(f) ==
    /\ Call("retain", retain(Self, f), None, None, << >>)
    /\ UNCHANGED stale

Clear ==
    /\ Call("clear", clear(Self), None, None, << >>)
    /\ UNCHANGED stale

DrainStart ==
    /\ drain = None
    /\ iter = None
    /\ drain' = Some(0)
    /\ drain_from' = Some(Self)
    /\ ret' = Ret("drain", FALSE, None, None, << >>)
    /\ bits' = None
    /\ UNCHANGED << storage, len, first_free, max_len, held,
                    iter, stale, removal_order >>

\* One call of next on the live Drain; the iterator is given up once it has
\* returned None.
DrainNext ==
    /\ is_some(drain)
    /\ LET r == Drain_next(Self, unwrap(drain)) IN
       /\ Commit(r.arena)
       /\ ret' = IF r.panic THEN Ret("drain_next", TRUE, None, None, << >>)
                 ELSE Ret("drain_next", FALSE, pair_index(r.out),
                          pair_value(r.out), << >>)
       /\ drain' = IF is_some(r.out) THEN Some(r.slot) ELSE None
       /\ removal_order' = TrackRemovals(removal_order, Self, r.arena)
    /\ bits' = None
    /\ UNCHANGED << iter, stale, drain_from >>

\* The live Drain goes out of scope before it has returned None.  Drain has
\* no Drop impl: the borrow ends and the arena stays as the calls of next
\* have left it.
DrainDrop ==
    /\ is_some(drain)
    /\ drain' = None
    /\ ret' = Ret("drain_drop", FALSE, None, None, << >>)
    /\ bits' = None
    /\ UNCHANGED << storage, len, first_free, max_len, held,
                    iter, stale, removal_order,
                    drain_from >>

\* The live iterator other than a Drain: its type and its fields.
Live(kind, it) == Some([kind |-> kind, it |-> it])

\* A step of a live iterator that leaves the arena as it is.
IterStep(op, r) ==
    /\ iter' = Live(unwrap(iter).kind, r.iter)
    /\ ret' = IF r.panic THEN Ret(op, TRUE, None, None, << >>)
              ELSE Ret(op, FALSE, pair_index(r.out), pair_value(r.out), << >>)
    /\ bits' = None
    /\ UNCHANGED << storage, len, first_free, max_len, held,
                    drain, stale, removal_order,
                    drain_from >>

IterStart ==
    /\ drain = None
    /\ iter = None
    /\ iter' = Live("Iter", Arena_iter(Self))
    /\ ret' = Ret("iter", FALSE, None, None, << >>)
    /\ bits' = None
    /\ drain_from' = None
    /\ UNCHANGED << storage, len, first_free, max_len, held,
                    drain, stale, removal_order >>

IterNext ==
    /\ is_some(iter)
    /\ unwrap(iter).kind = "Iter"
    /\ IterStep("iter_next", Iter_next(Self, unwrap(iter).it))

IterNextBack ==
    /\ is_some(iter)
    /\ unwrap(iter).kind = "Iter"
    /\ IterStep("iter_next_back", Iter_next_back(Self, unwrap(iter).it))

IterMutStart ==
    /\ drain = None
    /\ iter = None
    /\ iter' = Live("IterMut", Arena_iter_mut(Self))
    /\ ret' = Ret("iter_mut", FALSE, None, None, << >>)
    /\ bits' = None
    /\ drain_from' = None
    /\ UNCHANGED << storage, len, first_free, max_len, held,
                    drain, stale, removal_order >>

\* next on the live IterMut, then a write of `value` through the reference
\* of the item.
IterMutNext(value) ==
    /\ is_some(iter)
    /\ unwrap(iter).kind = "IterMut"
    /\ LET r == IterMut_next(Self, unwrap(iter).it) IN
       /\ iter' = Live("IterMut", r.iter)
       /\ Commit(IF ~ r.panic /\ is_some(r.out)
                 THEN write(Self, unwrap(r.out)[2], value) ELSE Self)
       /\ ret' = IF r.panic THEN Ret("iter_mut_next", TRUE, None, None, << >>)
                 ELSE Ret("iter_mut_next", FALSE, pair_index(r.out), None,
                          << pair_value(r.out) >>)
    /\ bits' = None
    /\ UNCHANGED << drain, stale, removal_order, drain_from >>

\* into_iter(self): the arena moves into the iterator.
IntoIterStart ==
    /\ drain = None
    /\ iter = None
    /\ iter' = Live("IntoIter", Arena_into_iter(Self))
    /\ ret' = Ret("into_iter", FALSE, None, None, << >>)
    /\ bits' = None
    /\ drain_from' = None
    /\ UNCHANGED << storage, len, first_free, max_len, held,
                    drain, stale, removal_order >>

IntoIterNext ==
    /\ is_some(iter)
    /\ unwrap(iter).kind = "IntoIter"
    /\ LET r == IntoIter_next(Self, unwrap(iter).it.slot) IN
       /\ iter' = Live("IntoIter", [unwrap(iter).it EXCEPT !.slot = r.slot])
       /\ Commit(r.arena)
       /\ ret' = IF r.panic THEN Ret("into_iter_next", TRUE, None, None, << >>)
                 ELSE Ret("into_iter_next", FALSE, pair_index(r.out),
                          pair_value(r.out), << >>)
       /\ removal_order' = TrackRemovals(removal_order, Self, r.arena)
    /\ bits' = None
    /\ UNCHANGED << drain, stale, drain_from >>

DrainFilterStart ==
    /\ drain = None
    /\ iter = None
    /\ iter' = Live("DrainFilter", Arena_drain_filter(Self))
    /\ ret' = Ret("drain_filter", FALSE, None, None, << >>)
    /\ bits' = None
    /\ drain_from' = None
    /\ UNCHANGED << storage, len, first_free, max_len, held,
                    drain, stale, removal_order >>

\* One call of next on the live DrainFilter; `predicate` is what its
\* predicate answers during this call.
DrainFilterNext(predicate) ==
    /\ is_some(iter)
    /\ unwrap(iter).kind = "DrainFilter"
    /\ LET r == DrainFilter_next(Self, unwrap(iter).it.slot, predicate) IN
       /\ iter' = Live("DrainFilter",
                       [unwrap(iter).it EXCEPT !.slot = r.slot])
       /\ Commit(r.arena)
       /\ ret' = IF r.panic
                 THEN Ret("drain_filter_next", TRUE, None, None, << >>)
                 ELSE Ret("drain_filter_next", FALSE, pair_index(r.out),
                          pair_value(r.out), << >>)
       /\ removal_order' = TrackRemovals(removal_order, Self, r.arena)
    /\ bits' = None
    /\ UNCHANGED << drain, stale, drain_from >>

\* The live iterator goes out of scope.  An Iter, an IterMut or a DrainFilter
\* gives the arena back as it is; an IntoIter takes its arena with it, and the program
\* goes on with a new one.
IterDrop ==
    /\ is_some(iter)
    /\ iter' = None
    /\ IF unwrap(iter).kind = "IntoIter"
       THEN /\ Replace(Arena_new)
            /\ removal_order' = << >>
       ELSE UNCHANGED << storage, len, first_free, max_len, held,
                         removal_order >>
    /\ ret' = Ret("drop", FALSE, None, None, << >>)
    /\ bits' = None
    /\ UNCHANGED << drain, stale, drain_from >>

\* The calls of SpecCapacity.  The storage may grow to LenMax + 1 entries, so
\* that len can reach LenMax with an Empty slot left; `ret` keeps the name
\* of the call and whether it panicked, and a panic ends the program.
CapCall(op, r) ==
    /\ ~ ret.panic
    /\ drain = None
    /\ iter = None
    /\ Len(r.arena.storage) <= LenMax + 1
    /\ Commit(r.arena)
    /\ ret' = Ret(op, r.panic, None, None, << >>)
    /\ removal_order' = << >>
    /\ bits' = None
    /\ drain_from' = None
    /\ UNCHANGED << drain, iter >>

CapInsert(value) ==
    /\ CapCall("insert", insert(Self, value))
    /\ UNCHANGED stale

CapInsertAt(index, value) ==
    /\ CapCall("insert_at", insert_at(Self, index, value))
    /\ UNCHANGED stale

CapInsertAtSlot(slot, value) ==
    /\ CapCall("insert_at_slot", insert_at_slot(Self, slot, value))
    /\ UNCHANGED stale

CapRemoveBySlot(slot) ==
    /\ CapCall("remove_by_slot", remove_by_slot(Self, slot))
    /\ UNCHANGED stale

\* The arena is serialized.
Serialize ==
    /\ drain = None
    /\ iter = None
    /\ ret' = [Ret("serialize", FALSE, None, None, << >>) EXCEPT
                  !.wire = Some(serialize(Self))]
    /\ bits' = None
    /\ drain_from' = None
    /\ UNCHANGED << storage, len, first_free, max_len, held,
                    drain, iter, stale,
                    removal_order >>

\* `sequence` is deserialized; the program goes on with the arena it gets,
\* and with a new one when it gets none.
Deserialize(sequence) ==
    /\ drain = None
    /\ iter = None
    /\ LET r == deserialize(sequence) IN
       /\ Replace(IF r.ok THEN unwrap(r.arena) ELSE Arena_new)
       /\ ret' = [Ret("deserialize", FALSE, None, None, << >>) EXCEPT
                     !.error = ~ r.ok, !.wire = Some(sequence)]
    /\ removal_order' = << >>
    /\ bits' = None
    /\ drain_from' = None
    /\ UNCHANGED << drain, iter, stale >>

\* index.to_bits() on the index the last call returned.
ToBits ==
    /\ is_some(ret.index)
    /\ bits' = Some(to_bits(unwrap(ret.index)))
    /\ UNCHANGED << storage, len, first_free, max_len, held,
                    drain, iter, ret, stale,
                    removal_order, drain_from >>

FromBits(b) ==
    /\ bits' = Some(b)
    /\ ret' = Ret("from_bits", FALSE, from_bits(b), None, << >>)
    /\ UNCHANGED << storage, len, first_free, max_len, held,
                    drain, iter, stale,
                    removal_order, drain_from >>

Next ==
    \/ \E value \in Values : Insert(value)
    \/ \E index \in IndexInputs, value \in Values : InsertAt(index, value)
    \/ \E slot \in SlotInputs, value \in Values : InsertAtSlot(slot, value)
    \/ \E index \in IndexInputs : Get(index)
    \/ \E index \in IndexInputs, value \in Values : GetMut(index, value)
    \/ \E index \in IndexInputs : Remove(index)
    \/ \E slot \in SlotInputs : RemoveBySlot(slot)
    \/ \E index \in IndexInputs : Invalidate(index)
    \/ \E f \in [0 .. MaxSlots - 1 -> BOOLEAN] : Retain(f)
    \/ Clear
    \/ DrainStart
    \/ DrainNext
    \/ DrainDrop

Spec == Init /\ [][Next]_vars

\* Only insert, remove and get are called.
NextInsertRemove ==
    \/ \E value \in Values : Insert(value)
    \/ \E index \in IndexInputs : Remove(index)
    \/ \E index \in IndexInputs : RemoveKeep(index)
    \/ \E index \in IndexInputs : Get(index)

SpecInsertRemove == Init /\ [][NextInsertRemove]_vars

\* insert, remove, and get2_mut with a write through each reference.
NextGet2Mut ==
    \/ \E value \in Values : Insert(value)
    \/ \E index \in IndexInputs : Remove(index)
    \/ \E index1, index2 \in IndexInputs, value1, value2 \in Values :
           Get2Mut(index1, index2, value1, value2)

SpecGet2Mut == Init /\ [][NextGet2Mut]_vars

\* The calls that hand out an Index, and its encoding and decoding.
NextBits ==
    \/ \E value \in Values : Insert(value)
    \/ \E slot \in SlotInputs, value \in Values : InsertAtSlot(slot, value)
    \/ \E index \in IndexInputs : Invalidate(index)
    \/ \E index \in IndexInputs : Remove(index)
    \/ IterStart
    \/ IterNext
    \/ IterDrop
    \/ ToBits
    \/ \E b \in BitsInputs : FromBits(b)

SpecBits == Init /\ [][NextBits]_vars

\* insert and remove, and the four iterators over the arenas they build.
NextIter ==
    \/ \E value \in Values : Insert(value)
    \/ \E index \in IndexInputs : Remove(index)
    \/ IterStart
    \/ IterNext
    \/ IterNextBack
    \/ IterMutStart
    \/ \E value \in Values : IterMutNext(value)
    \/ IntoIterStart
    \/ IntoIterNext
    \/ IterDrop
    \/ DrainStart
    \/ DrainNext
    \/ DrainDrop
    \/ DrainFilterStart
    \/ \E predicate \in PredicateInputs : DrainFilterNext(predicate)

SpecIter == Init /\ [][NextIter]_vars

\* The three inserts and remove_by_slot on an arena that can be filled to
\* LenMax elements.
NextCapacity ==
    \/ CapInsert(1)
    \/ \E slot \in 0 .. LenMax, generation \in GenInputs :
           CapInsertAt(Index(slot, generation), 1)
    \/ \E slot \in 0 .. LenMax : CapInsertAtSlot(slot, 1)
    \/ \E slot \in 0 .. LenMax : CapRemoveBySlot(slot)

SpecCapacity == Init /\ [][NextCapacity]_vars

\* insert and remove, and the arena written to and read from its serialized
\* form.
NextSerde ==
    \/ \E value \in Values : Insert(value)
    \/ \E index \in IndexInputs : Remove(index)
    \/ Serialize
    \/ \E sequence \in SequenceInputs : Deserialize(sequence)

SpecSerde == Init /\ [][NextSerde]_vars

(***************************************************************************)
(* Properties                                                              *)
(***************************************************************************)
AllHandles == [slot : 0 .. MaxSlots, generation : 1 .. GenMax]

Slots(self) == 0 .. Len(self.storage) - 1

OccupiedSlots(self) == {s \in Slots(self) : is_occupied(self, s)}

EmptySlots(self) == {s \in Slots(self) : is_empty_entry(self, s)}

\* The slots met by following first_free and then each Empty entry's
\* next_free, for at most `fuel` steps; the walk ends at None and at an
\* entry that is not Empty.
RECURSIVE FreeListFrom(_, _, _)
FreeListFrom(self, fp, fuel) ==
    IF ~ is_some(fp) \/ fuel = 0
    THEN << >>
    ELSE LET s == FreePointer_slot(unwrap(fp)) IN
         IF ~ is_empty_entry(self, s)
         THEN << s >>
         ELSE << s >> \o FreeListFrom(self, self.storage[s + 1].next_free,
                                      fuel - 1)

FreeList(self) == FreeListFrom(self, self.first_free, Len(self.storage) + 1)

FreeListSlots(self) == {FreeList(self)[i] : i \in 1 .. Len(FreeList(self))}

\* The index validates: slot in storage, entry Occupied, generations equal.
Validates(self, index) ==
    /\ index.slot \in OccupiedSlots(self)
    /\ self.storage[index.slot + 1].generation = index.generation

\* C1 (as stated): ABA safety.  Once remove(idx) has returned a value,
\* get(idx) is absent in every later state, and an insert that reuses
\* idx.slot returns a handle whose generation differs from idx.generation.
C1_ABA_AsStated ==
    is_some(stale) =>
        /\ get(Self, unwrap(stale).index) = None
        /\ (ret.op = "insert" /\ unwrap(ret.index).slot = unwrap(stale).index.slot)
               => unwrap(ret.index).generation # unwrap(stale).index.generation

\* C1 (amended): the same, as long as idx.slot has been reused by fewer
\* inserts than there are generation values (GenMax here, 2^32 - 1 in the
\* code) since remove(idx): the insert that completes the cycle wraps the
\* slot's generation back to idx.generation and idx is valid again.
C1_ABA ==
    (is_some(stale) /\ unwrap(stale).reuses < GenMax) =>
        /\ get(Self, unwrap(stale).index) = None
        /\ (ret.op = "insert" /\ unwrap(ret.index).slot = unwrap(stale).index.slot)
               => unwrap(ret.index).generation # unwrap(stale).index.generation

\* A later insert has reused the slot of the kept index.
C1_Witness ==
    /\ is_some(stale)
    /\ unwrap(stale).reuses = 1
    /\ ret.op = "insert"
    /\ unwrap(ret.index).slot = unwrap(stale).index.slot
    /\ is_occupied(Self, unwrap(stale).index.slot)

\* C2: len() equals the number of Occupied storage entries, which equals the
\* number of distinct handles h for which get(h) is present.
C2_LengthInvariant ==
    /\ Arena_len(Self) = Cardinality(OccupiedSlots(Self))
    /\ Arena_len(Self) =
           Cardinality({h \in AllHandles : is_some(get(Self, h))})

\* retain has just removed entries and left one, with a hole in storage.
C2_Witness ==
    /\ ret.op = "retain"
    /\ len = 1
    /\ Cardinality(EmptySlots(Self)) = 2

\* C3: get(index) and get_mut(index) give the value stored at index.slot if
\* and only if the slot is within storage, its entry is Occupied and its
\* generation equals index.generation; otherwise they give absent.
C3_GetIffValid ==
    \A index \in AllHandles :
        IF /\ index.slot < Len(storage)
           /\ storage[index.slot + 1].tag = "Occupied"
           /\ storage[index.slot + 1].generation = index.generation
        THEN /\ get(Self, index) = Some(storage[index.slot + 1].value)
             /\ is_some(get_mut(Self, index))
             /\ deref(Self, unwrap(get_mut(Self, index)))
                    = storage[index.slot + 1].value
        ELSE /\ get(Self, index) = None
             /\ get_mut(Self, index) = None

\* get has returned a value from an arena in which another slot was freed
\* and a third reused, so stale and out-of-range indices exist beside it.
C3_Witness ==
    /\ ret.op = "get"
    /\ is_some(ret.value)
    /\ EmptySlots(Self) # {}
    /\ \E s \in OccupiedSlots(Self) : storage[s + 1].generation > 1

\* C4: insert(value) with a non-empty free list reuses the head slot, stores
\* the value with next() of the generation the Empty entry held, makes that
\* entry's next_free the new head and leaves the storage length alone; with
\* an empty free list it appends an Occupied entry of generation 1 at slot =
\* old storage length.  Either way len grows by one and get(returned index)
\* is the value.
C4_InsertPost(value) ==
    LET r == insert(Self, value) IN
    /\ ~ r.panic
    /\ r.arena.len = len + 1
    /\ get(r.arena, r.out) = Some(value)
    /\ IF is_some(first_free)
       THEN LET slot == unwrap(first_free) - 1 IN
            /\ r.out = Index(slot, Generation_next(storage[slot + 1].generation))
            /\ r.arena.storage = [storage EXCEPT ![slot + 1] =
                                     Occupied(Generation_next(@.generation),
                                              value)]
            /\ r.arena.first_free = storage[slot + 1].next_free
            /\ Len(r.arena.storage) = Len(storage)
       ELSE /\ r.out = Index(Len(storage), 1)
            /\ r.arena.storage = Append(storage, Occupied(1, value))
            /\ r.arena.first_free = None

C4_Insert == \A value \in Values : C4_InsertPost(value)

\* insert has reused a freed slot while another slot was still free.
C4_Witness ==
    /\ ret.op = "insert"
    /\ unwrap(ret.index).generation = 2
    /\ is_some(first_free)
    /\ len = 2

\* C5: LIFO slot reuse.  While slots freed by remove await reuse, an insert
\* takes the one freed last: after inserting A, B, C and removing A then B,
\* D goes to B's former slot and E to A's.
C5_LIFO ==
    removal_order # << >> =>
        \A value \in Values :
            insert(Self, value).out.slot = removal_order[Len(removal_order)]

\* Slots 0 (A) then 1 (B) were freed, beside C in slot 2, and the insert of
\* D has just taken slot 1, leaving slot 0 for E.
C5_Witness ==
    /\ ret.op = "insert"
    /\ ret.index = Some(Index(1, 2))
    /\ removal_order = << 0 >>
    /\ is_occupied(Self, 2)
    /\ storage[1].tag = "Empty" /\ storage[1].generation = 1

\* C6: remove(index) on a valid index returns the stored value, replaces the
\* entry by an Empty entry of the same generation whose next_free is the
\* previous first_free, makes index.slot the head of the free list and
\* takes one off len; no other storage entry changes.
C6_RemovePost(index) ==
    LET r == remove(Self, index) IN
    /\ ~ r.panic
    /\ r.out = Some(storage[index.slot + 1].value)
    /\ r.arena.storage = [storage EXCEPT ![index.slot + 1] =
                             Empty(index.generation, first_free)]
    /\ is_some(r.arena.first_free)
    /\ FreePointer_slot(unwrap(r.arena.first_free)) = index.slot
    /\ r.arena.len = len - 1

C6_Remove ==
    \A index \in AllHandles : Validates(Self, index) => C6_RemovePost(index)

\* remove has returned a value and pushed its slot in front of a slot that
\* was free already.
C6_Witness ==
    /\ ret.op = "remove"
    /\ is_some(ret.value)
    /\ is_some(first_free)
    /\ is_some(storage[unwrap(first_free)].next_free)

\* C7: remove(index) and invalidate(index) on an index that does not
\* validate (slot out of range, Empty slot, generation mismatch) return
\* absent and leave storage, len and first_free unchanged.
C7_InvalidIndex ==
    \A index \in AllHandles :
        ~ Validates(Self, index) =>
            /\ remove(Self, index) = Outcome(Self, None, FALSE)
            /\ invalidate(Self, index) = Outcome(Self, None, FALSE)

\* invalidate has returned absent in an arena that holds an Occupied entry
\* of a later generation and an Empty entry.
C7_Witness ==
    /\ ret.op = "invalidate"
    /\ ret.index = None
    /\ EmptySlots(Self) # {}
    /\ \E s \in OccupiedSlots(Self) : storage[s + 1].generation = 2

\* C8: invalidate(index) on a valid index advances the slot's generation in
\* place and returns the index of the same slot with the new generation;
\* afterwards get(old index) is absent, get(new index) is the unchanged
\* value, and len, first_free and every other entry are unchanged.
C8_InvalidatePost(index) ==
    LET r == invalidate(Self, index)
        new == unwrap(r.out)
    IN  /\ ~ r.panic
        /\ is_some(r.out)
        /\ new.slot = index.slot
        /\ new.generation # index.generation
        /\ new.generation = r.arena.storage[index.slot + 1].generation
        /\ get(r.arena, index) = None
        /\ get(r.arena, new) = Some(storage[index.slot + 1].value)
        /\ r.arena.len = len
        /\ r.arena.first_free = first_free
        /\ Len(r.arena.storage) = Len(storage)
        /\ \A s \in Slots(Self) :
               s # index.slot => r.arena.storage[s + 1] = storage[s + 1]

C8_Invalidate ==
    \A index \in AllHandles : Validates(Self, index) => C8_InvalidatePost(index)

\* invalidate has returned a new index while another entry was Occupied and
\* a slot was free.
C8_Witness ==
    /\ ret.op = "invalidate"
    /\ is_some(ret.index)
    /\ len = 2
    /\ is_some(first_free)

\* C9: for every valid index i holding v, invalidate(i) leaves the same
\* arena and returns the same index as remove(i) followed by insert(v).
C9_InvalidateAsRemoveInsert ==
    \A index \in AllHandles :
        Validates(Self, index) =>
            LET v == storage[index.slot + 1].value
                direct == invalidate(Self, index)
                removed == remove(Self, index)
                reinserted == insert(removed.arena, v)
            IN  /\ ~ direct.panic /\ ~ removed.panic /\ ~ reinserted.panic
                /\ removed.out = Some(v)
                /\ direct.arena = reinserted.arena
                /\ direct.out = Some(reinserted.out)

\* invalidate has acted on a valid index in an arena with a free slot and a
\* second element.
C9_Witness ==
    /\ ret.op = "invalidate"
    /\ is_some(ret.index)
    /\ unwrap(ret.index).generation = 1
    /\ is_some(first_free)
    /\ len = 2

\* C10: get2_mut(i1, i2) panics if and only if i1 = i2; for i1 # i2 its
\* results are what get_mut(i1) and get_mut(i2) return, they are never both
\* present for the same slot, and a write through one is not seen through
\* the other.
C10_Get2MutPost(index1, index2, value1, value2) ==
    LET r == get2_mut_write(Self, index1, index2, value1, value2)
        item1 == get_mut(Self, index1)
        item2 == get_mut(Self, index2)
    IN  /\ r.panic <=> index1 = index2
        /\ index1 = index2 => r.arena = Self
        /\ index1 # index2 =>
               /\ r.out = << item1, item2 >>
               /\ ~ (is_some(item1) /\ is_some(item2) /\ item1 = item2)
               /\ is_some(item1) => get(r.arena, index1) = Some(value1)
               /\ is_some(item2) => get(r.arena, index2) = Some(value2)
               /\ ~ is_some(item1) => get(r.arena, index1) = None
               /\ ~ is_some(item2) => get(r.arena, index2) = None
               /\ \A h \in AllHandles :
                      (h.slot # index1.slot /\ h.slot # index2.slot)
                          => get(r.arena, h) = get(Self, h)
               /\ r.arena.len = len
               /\ r.arena.first_free = first_free
               /\ Len(r.arena.storage) = Len(storage)

C10_Get2Mut ==
    \A index1, index2 \in AllHandles, value1, value2 \in Values :
        C10_Get2MutPost(index1, index2, value1, value2)

\* get2_mut has returned two references and different values were written
\* through them.
C10_Witness ==
    /\ ret.op = "get2_mut"
    /\ ~ ret.panic
    /\ is_some(ret.refs[1]) /\ is_some(ret.refs[2])
    /\ storage[unwrap(ret.refs[1]) + 1].value
           # storage[unwrap(ret.refs[2]) + 1].value

\* C11: handle encoding round trip.  Every u64 b whose high half is nonzero
\* decodes, and from_bits(b).to_bits() = b; every Index i satisfies
\* from_bits(i.to_bits()) = i, with the generation in the high half of the
\* bits and the slot in the low half.  The same holds of the bits and the
\* index of the last to_bits or from_bits call.
C11_RoundTrip ==
    /\ \A b \in BitsInputs :
           Shr(b, IndexBits) # 0 =>
               /\ is_some(from_bits(b))
               /\ to_bits(unwrap(from_bits(b))) = b
    /\ \A i \in EncodableIndexes :
           /\ from_bits(to_bits(i)) = Some(i)
           /\ to_bits(i) \div U32Mod = i.generation
           /\ to_bits(i) % U32Mod = i.slot
    /\ (is_some(bits) /\ is_some(ret.index)) =>
           /\ from_bits(unwrap(bits)) = ret.index
           /\ to_bits(unwrap(ret.index)) = unwrap(bits)

\* from_bits has decoded a value with every bit of the generation set and a
\* nonzero slot.
C11_Witness ==
    /\ ret.op = "from_bits"
    /\ is_some(ret.index)
    /\ unwrap(ret.index).generation = U32Mod - 1
    /\ unwrap(ret.index).slot = U32Mod - 2
    /\ bits = Some(U64Mod - 2)

\* The calls whose result carries an Index made by the arena.
IssuingOps ==
    {"insert", "insert_at_slot", "invalidate", "iter_next", "iter_next_back",
     "iter_mut_next", "into_iter_next", "drain_next", "remove_by_slot"}

\* C12: from_bits(b) is absent for every u64 b whose high half is zero,
\* whatever its low half; and no Index returned by insert, insert_at_slot,
\* invalidate or an iterator, nor the index of any Occupied slot, encodes to
\* such a value.
C12_ZeroGeneration ==
    /\ \A b \in BitsInputs : Shr(b, IndexBits) = 0 => from_bits(b) = None
    /\ (ret.op \in IssuingOps /\ is_some(ret.index)) =>
           /\ Shr(to_bits(unwrap(ret.index)), IndexBits) # 0
           /\ is_some(bits) => Shr(unwrap(bits), IndexBits) # 0
    /\ \A s \in OccupiedSlots(Self) :
           Shr(to_bits(unwrap(contains_slot(Self, s))), IndexBits) # 0

\* from_bits has refused a value whose low half has every bit set.
C12_Witness ==
    /\ ret.op = "from_bits"
    /\ ret.index = None
    /\ bits = Some(U32Mod - 1)
    /\ len > 0

\* C13: generation arithmetic.  first() is 1; next(g) is g + 1 for every g
\* below the largest generation and 1 for the largest; and no generation
\* stored in a slot or carried by a returned index is ever 0.
C13_Generation ==
    /\ Generation_first = 1
    /\ \A g \in 1 .. GenMax :
           Generation_next(g) = IF g < GenMax THEN g + 1 ELSE 1
    /\ \A s \in Slots(Self) : storage[s + 1].generation >= 1
    /\ is_some(ret.index) => unwrap(ret.index).generation >= 1

\* invalidate has advanced a slot from the largest generation, and returned
\* the index of generation 1, while an Empty slot holds the largest one.
C13_Witness ==
    /\ ret.op = "invalidate"
    /\ is_some(ret.index)
    /\ unwrap(ret.index).generation = 1
    /\ \E s \in EmptySlots(Self) : storage[s + 1].generation = GenMax

C15_InsertAtPost(index, value) ==
    LET r == insert_at(Self, index, value) IN
    /\ ~ r.panic
    /\ get(r.arena, index) = Some(value)
    /\ get_by_slot(r.arena, index.slot) = Some(<< index, value >>)
    /\ is_some(r.out) <=> is_occupied(Self, index.slot)
    /\ is_occupied(Self, index.slot)
           => r.out = Some(storage[index.slot + 1].value)
    /\ r.arena.len = IF is_some(r.out) THEN len ELSE len + 1

C15_InsertAt ==
    \A index \in AllHandles, value \in Values : C15_InsertAtPost(index, value)

\* insert_at has put a value of generation 2 at slot 2 of an arena whose
\* storage ended before it, leaving Empty placeholders in slots 0 and 1.
C15_Witness ==
    /\ ret.op = "insert_at"
    /\ ret.value = None
    /\ ret.index = Some(Index(2, 2))
    /\ len = 1
    /\ EmptySlots(Self) = {0, 1}

\* C16: insert_at_slot(slot, value) on an Occupied slot replaces the value,
\* returns the old value, sets the slot's generation to next() of its
\* previous generation and returns the index with that generation, so the
\* index that was valid for the slot before the call is not valid after it;
\* on an Empty slot it uses next() of the Empty entry's generation, and on a
\* slot beyond storage it uses generation 1.
C16_InsertAtSlotPost(slot, value) ==
    LET r == insert_at_slot(Self, slot, value)
        index == r.out[1]
        old_value == r.out[2]
    IN  /\ ~ r.panic
        /\ index.slot = slot
        /\ get(r.arena, index) = Some(value)
        /\ IF is_occupied(Self, slot)
           THEN LET before == Index(slot, storage[slot + 1].generation) IN
                /\ old_value = Some(storage[slot + 1].value)
                /\ index.generation = Generation_next(before.generation)
                /\ r.arena.storage[slot + 1]
                       = Occupied(Generation_next(before.generation), value)
                /\ is_some(get(Self, before))
                /\ get(r.arena, before) = None
           ELSE IF is_empty_entry(Self, slot)
           THEN /\ old_value = None
                /\ index.generation
                       = Generation_next(storage[slot + 1].generation)
           ELSE /\ old_value = None
                /\ index.generation = 1

C16_InsertAtSlot ==
    \A slot \in 0 .. MaxSlots, value \in Values :
        C16_InsertAtSlotPost(slot, value)

\* insert_at_slot has replaced a value, returning the old one and an index
\* of generation 2, in an arena that also has an Empty slot.
C16_Witness ==
    /\ ret.op = "insert_at_slot"
    /\ is_some(ret.value)
    /\ is_some(ret.index)
    /\ unwrap(ret.index).generation = 2
    /\ EmptySlots(Self) # {}

\* The predicates retain is called with: what f returns for each slot.
RetainInputs == [0 .. MaxSlots - 1 -> BOOLEAN]

\* C17: retain(f) calls f exactly once for each entry that is Occupied when
\* retain starts and for no Empty entry; afterwards exactly the entries for
\* which f returned true are still Occupied with their slot and generation
\* unchanged, every entry for which f returned false is Empty with the same
\* generation and is on the free list, and len is the number of retained
\* entries.
C17_RetainPost(f) ==
    LET r == retain(Self, f)
        calls == r.out
    IN  /\ ~ r.panic
        /\ Len(calls) = Cardinality(OccupiedSlots(Self))
        /\ {calls[i] : i \in 1 .. Len(calls)}
               = {Index(s, storage[s + 1].generation) : s \in OccupiedSlots(Self)}
        /\ Len(r.arena.storage) = Len(storage)
        /\ OccupiedSlots(r.arena) = {s \in OccupiedSlots(Self) : f[s]}
        /\ \A s \in OccupiedSlots(Self) :
               /\ r.arena.storage[s + 1].generation = storage[s + 1].generation
               /\ f[s] => get(r.arena, Index(s, storage[s + 1].generation))
                              = Some(storage[s + 1].value)
               /\ ~ f[s] => /\ is_empty_entry(r.arena, s)
                            /\ s \in FreeListSlots(r.arena)
        /\ r.arena.len = Cardinality({s \in OccupiedSlots(Self) : f[s]})

C17_Retain == \A f \in RetainInputs : C17_RetainPost(f)

\* retain has left one entry, in slot 1, and the free list runs from slot 2
\* to slot 0: the order in which retain frees slots 0 and 2.
C17_Witness ==
    /\ ret.op = "retain"
    /\ len = 1
    /\ OccupiedSlots(Self) = {1}
    /\ FreeList(Self) = << 2, 0 >>
    /\ removal_order = << 0, 2 >>

\* A Drain has just returned None: it was consumed to the end.
DrainConsumed ==
    /\ ret.op = "drain_next"
    /\ ~ ret.panic
    /\ ret.index = None
    /\ is_some(drain_from)

\* C18: clear() leaves the arena with len() = 0 and no valid handle, and
\* changes neither the number of storage slots nor any slot's generation; and
\* the arena left by drain() consumed to the end is the arena clear() would
\* have left in its place.
C18_Clear ==
    /\ LET r == clear(Self) IN
       /\ ~ r.panic
       /\ Arena_len(r.arena) = 0
       /\ \A h \in AllHandles : get(r.arena, h) = None
       /\ Len(r.arena.storage) = Len(storage)
       /\ \A s \in Slots(Self) :
              r.arena.storage[s + 1].generation = storage[s + 1].generation
    /\ DrainConsumed => Self = clear(unwrap(drain_from)).arena

\* clear has emptied an arena of three slots, two of them Occupied, one of
\* these of generation 2.
C18_Witness ==
    /\ ret.op = "clear"
    /\ len = 0
    /\ Len(storage) = 3
    /\ removal_order = << 1, 0, 2 >>
    /\ storage[1].generation = 2

\* The items next() returns from the iterator `it` on, up to its first None.
RECURSIVE Iter_collect(_, _)
Iter_collect(self, it) ==
    LET r == Iter_next(self, it) IN
    IF r.panic \/ ~ is_some(r.out)
    THEN << >>
    ELSE << unwrap(r.out) >> \o Iter_collect(self, r.iter)

\* The same for next_back().
RECURSIVE Iter_collect_back(_, _)
Iter_collect_back(self, it) ==
    LET r == Iter_next_back(self, it) IN
    IF r.panic \/ ~ is_some(r.out)
    THEN << >>
    ELSE << unwrap(r.out) >> \o Iter_collect_back(self, r.iter)

RECURSIVE IterMut_collect(_, _)
IterMut_collect(self, it) ==
    LET r == IterMut_next(self, it) IN
    IF r.panic \/ ~ is_some(r.out)
    THEN << >>
    ELSE << unwrap(r.out) >> \o IterMut_collect(self, r.iter)

RECURSIVE IntoIter_collect(_, _)
IntoIter_collect(self, slot) ==
    LET r == IntoIter_next(self, slot) IN
    IF r.panic \/ ~ is_some(r.out)
    THEN << >>
    ELSE << unwrap(r.out) >> \o IntoIter_collect(r.arena, r.slot)

RECURSIVE Drain_collect(_, _)
Drain_collect(self, slot) ==
    LET r == Drain_next(self, slot) IN
    IF r.panic \/ ~ is_some(r.out)
    THEN << >>
    ELSE << unwrap(r.out) >> \o Drain_collect(r.arena, r.slot)

\* The Occupied entries in ascending slot order, each as (index, value).
OccupiedItems(self) ==
    LET slots == SelectSeq(SlotSeq(Len(self.storage)),
                           LAMBDA s : is_occupied(self, s))
    IN  [i \in 1 .. Len(slots) |->
            << Index(slots[i], self.storage[slots[i] + 1].generation),
               self.storage[slots[i] + 1].value >>]

\* C19 (as stated): forward iteration with iter() on any reachable arena
\* yields every Occupied entry exactly once, in ascending slot order, each
\* as (index, value) with get(index) = value, and yields exactly len()
\* items before it returns None.
C19_IterForward ==
    LET items == Iter_collect(Self, Arena_iter(Self)) IN
    /\ items = OccupiedItems(Self)
    /\ \A i \in 1 .. Len(items) : get(Self, items[i][1]) = Some(items[i][2])
    /\ Len(items) = Arena_len(Self)

\* What iter() does yield: the Occupied entries in ascending slot order up
\* to some point, each with the index valid for it.
C19_IterPrefix ==
    LET items == Iter_collect(Self, Arena_iter(Self)) IN
    /\ Len(items) <= Arena_len(Self)
    /\ items = SubSeq(OccupiedItems(Self), 1, Len(items))

\* An Iter over three Occupied entries has returned None after two items.
C19_Witness ==
    /\ is_some(iter)
    /\ unwrap(iter).kind = "Iter"
    /\ ret.op = "iter_next"
    /\ ret.index = None
    /\ len = 3
    /\ unwrap(iter).it.len = 1
    /\ unwrap(iter).it.front = 2

\* size_hint() of the live Iter is exact for next() and for next_back().
IterExact ==
    (is_some(iter) /\ unwrap(iter).kind = "Iter") =>
        LET it == unwrap(iter).it
            n == Len(Iter_collect(Self, it))
            m == Len(Iter_collect_back(Self, it))
        IN  /\ Iter_size_hint(it) = << n, Some(n) >>
            /\ Iter_size_hint(it) = << m, Some(m) >>
            /\ Iter_next(Self, it).out = None
                   => Iter_size_hint(it) = << 0, Some(0) >>
            /\ Iter_next_back(Self, it).out = None
                   => Iter_size_hint(it) = << 0, Some(0) >>

IterMutExact ==
    (is_some(iter) /\ unwrap(iter).kind = "IterMut") =>
        LET it == unwrap(iter).it
            n == Len(IterMut_collect(Self, it))
        IN  /\ IterMut_size_hint(it) = << n, Some(n) >>
            /\ IterMut_next(Self, it).out = None
                   => IterMut_size_hint(it) = << 0, Some(0) >>

IntoIterExact ==
    (is_some(iter) /\ unwrap(iter).kind = "IntoIter") =>
        LET slot == unwrap(iter).it.slot
            n == Len(IntoIter_collect(Self, slot))
        IN  /\ IntoIter_size_hint(Self) = << n, Some(n) >>
            /\ IntoIter_next(Self, slot).out = None
                   => IntoIter_size_hint(Self) = << 0, Some(0) >>

DrainExact ==
    is_some(drain) =>
        LET slot == unwrap(drain)
            n == Len(Drain_collect(Self, slot))
        IN  /\ Drain_size_hint(Self) = << n, Some(n) >>
            /\ Drain_next(Self, slot).out = None
                   => Drain_size_hint(Self) = << 0, Some(0) >>

\* C20 (as stated): exact length reporting.  For Iter, IterMut, IntoIter and
\* Drain, at every step of iteration size_hint() is (n, Some(n)) with n the
\* number of items the iterator will still yield, and next() / next_back()
\* returns None only when size_hint() is (0, Some(0)).
C20_SizeHint == IterExact /\ IterMutExact /\ IntoIterExact /\ DrainExact

\* The same for the three iterators other than Iter.
C20_SizeHintButIter == IterMutExact /\ IntoIterExact /\ DrainExact

\* An Iter has yielded an item, reports one more, and will return None.
C20_Witness ==
    /\ is_some(iter)
    /\ unwrap(iter).kind = "Iter"
    /\ ret.op = "iter_next"
    /\ is_some(ret.index)
    /\ Iter_size_hint(unwrap(iter).it) = << 1, Some(1) >>
    /\ Iter_next(Self, unwrap(iter).it).out = None

\* The order of calls on one Iter: TRUE is next(), FALSE is next_back().
Schedules == [1 .. MaxSlots + 1 -> BOOLEAN]

\* The items an Iter returns when it is called in the order of `schedule`
\* from call i on; a None adds nothing.
RECURSIVE Iter_run(_, _, _, _)
Iter_run(self, it, schedule, i) ==
    IF i > Len(schedule)
    THEN << >>
    ELSE LET r == IF schedule[i] THEN Iter_next(self, it)
                  ELSE Iter_next_back(self, it)
         IN  (IF is_some(r.out) THEN << unwrap(r.out) >> ELSE << >>)
                 \o Iter_run(self, r.iter, schedule, i + 1)

\* The Iter left by the calls of `schedule` from call i on.
RECURSIVE Iter_after(_, _, _, _)
Iter_after(self, it, schedule, i) ==
    IF i > Len(schedule)
    THEN it
    ELSE Iter_after(self,
                    IF schedule[i] THEN Iter_next(self, it).iter
                    ELSE Iter_next_back(self, it).iter,
                    schedule, i + 1)

SeqToSet(q) == {q[i] : i \in 1 .. Len(q)}

\* C21 (as stated): double-ended iteration.  For any reachable arena and any
\* interleaving of next() and next_back() on one Iter, every Occupied entry
\* is yielded exactly once in total, each yielded (index, value) satisfies
\* get(index) = value, and once the two ends have met both next() and
\* next_back() return None.
C21_DoubleEnded ==
    \A schedule \in Schedules :
        LET items == Iter_run(Self, Arena_iter(Self), schedule, 1)
            it == Iter_after(Self, Arena_iter(Self), schedule, 1)
        IN  /\ Len(items) = Cardinality(OccupiedSlots(Self))
            /\ SeqToSet(items) = SeqToSet(OccupiedItems(Self))
            /\ \A i \in 1 .. Len(items) :
                   get(Self, items[i][1]) = Some(items[i][2])
            /\ Iter_next(Self, it).out = None
            /\ Iter_next_back(Self, it).out = None

\* C21 restricted to the arenas without an Empty slot and to next_back()
\* alone: the entries come in descending slot order, each with its index.
C21_BackwardDense ==
    EmptySlots(Self) = {} =>
        LET items == Iter_collect_back(Self, Arena_iter(Self)) IN
        /\ Len(items) = Len(storage)
        /\ \A i \in 1 .. Len(items) :
               items[i] = OccupiedItems(Self)[Len(storage) + 1 - i]

\* next_back() has returned the value of slot 2 under an index of slot 1,
\* which is Empty.
C21_Witness ==
    /\ is_some(iter)
    /\ unwrap(iter).kind = "Iter"
    /\ ret.op = "iter_next_back"
    /\ is_some(ret.index)
    /\ unwrap(ret.index).slot = 1
    /\ is_empty_entry(Self, 1)
    /\ is_occupied(Self, 2)
    /\ unwrap(iter).it.back = 2

\* The handles n successive calls of insert return, from `self` on.
RECURSIVE insert_handles(_, _)
insert_handles(self, n) ==
    IF n = 0
    THEN {}
    ELSE LET r == insert(self, 1) IN
         IF r.panic THEN {} ELSE {r.out} \cup insert_handles(r.arena, n - 1)

\* drain() on `self`, consumed to its first None.
C22_DrainPost(self) ==
    LET items == Drain_collect(self, 0)
        r == Drain_for_each_drop(self, 0)
        drained == {items[i][1] : i \in 1 .. Len(items)}
    IN  /\ items = OccupiedItems(self)
        /\ \A i \in 1 .. Len(items) :
               get(self, items[i][1]) = Some(items[i][2])
        /\ ~ r.panic
        /\ Arena_len(r.arena) = 0
        /\ \A h \in AllHandles : get(r.arena, h) = None
        /\ Len(r.arena.storage) = Len(self.storage)
        /\ \A n \in 1 .. MaxSlots + 1 :
               /\ Cardinality(insert_handles(r.arena, n)) = n
               /\ insert_handles(r.arena, n) \cap drained = {}

\* C22: a drain() iterator consumed to the end yields every element that was
\* in the arena exactly once, as (index, value) with the index valid for it
\* before draining, and leaves the arena with len() = 0, every former handle
\* invalid and the number of storage slots unchanged; the inserts that follow
\* return handles that differ from the drained ones.
C22_DrainConsumed ==
    /\ C22_DrainPost(Self)
    /\ DrainConsumed =>
           /\ Self = Drain_for_each_drop(unwrap(drain_from), 0).arena
           /\ len = 0
           /\ Len(storage) = Len(unwrap(drain_from).storage)
           /\ \A h \in AllHandles : get(Self, h) = None
    /\ (is_some(drain) /\ is_some(ret.index)) =>
           get(unwrap(drain_from), unwrap(ret.index)) = ret.value

\* A Drain over two elements around an Empty slot, one of generation 2, has
\* returned None.
C22_Witness ==
    /\ DrainConsumed
    /\ drain = None
    /\ OccupiedSlots(unwrap(drain_from)) = {0, 2}
    /\ unwrap(drain_from).storage[1].generation = 2
    /\ len = 0
    /\ Len(storage) = 3

\* C23 (as stated): once a drain() iterator that was abandoned after
\* yielding only some elements is gone, the elements it had not yet visited
\* are removed as well: len() = 0 and no handle is valid.
C23_DropEmpties ==
    (ret.op = "drain_drop" /\ len < unwrap(drain_from).len) =>
        /\ len = 0
        /\ \A h \in AllHandles : get(Self, h) = None

\* What a Drain that goes out of scope does leave: the elements it has
\* yielded are gone, and every other element of the arena drain() was called
\* on is in its place under its handle.
C23_DropKeepsUnvisited ==
    ret.op = "drain_drop" =>
        LET from == unwrap(drain_from)
            yielded == Len(OccupiedItems(from)) - len
        IN  /\ yielded >= 0
            /\ OccupiedItems(Self) =
                   SubSeq(OccupiedItems(from), yielded + 1,
                          Len(OccupiedItems(from)))

\* A Drain over two elements was dropped after it had yielded the first: the
\* second is still in the arena.
C23_Witness ==
    /\ ret.op = "drain_drop"
    /\ Len(OccupiedItems(unwrap(drain_from))) = 2
    /\ len = 1
    /\ \E h \in AllHandles : is_some(get(Self, h))

\* len counts the Occupied entries.
LengthInvariant(self) == self.len = Cardinality(OccupiedSlots(self))

\* Following first_free and then each Empty entry's next_free visits every
\* Empty slot exactly once and nothing else, and ends in None; first_free is
\* None exactly when no slot is Empty.
FreeListInvariant(self) ==
    LET list == FreeList(self) IN
    /\ \A i \in 1 .. Len(list) : list[i] \in EmptySlots(self)
    /\ \A i, j \in 1 .. Len(list) : i # j => list[i] # list[j]
    /\ FreeListSlots(self) = EmptySlots(self)
    /\ Len(list) <= Len(self.storage)
    /\ (self.first_free = None) <=> (EmptySlots(self) = {})

\* One call of next on a DrainFilter over `self` with its cursor at `slot`.
C24_NextPost(self, slot, predicate) ==
    LET r == DrainFilter_next(self, slot, predicate)
        skipped(to) == \A s \in slot .. to :
                           is_occupied(self, s) => ~ predicate[s]
    IN  /\ ~ r.panic
        /\ LengthInvariant(r.arena)
        /\ FreeListInvariant(r.arena)
        /\ \A value \in Values :
               LET i == insert(r.arena, value) IN
               ~ i.panic /\ get(i.arena, i.out) = Some(value)
        /\ IF is_some(r.out)
           THEN LET index == unwrap(r.out)[1] IN
                /\ get(self, index) = Some(unwrap(r.out)[2])
                /\ index.slot >= slot
                /\ predicate[index.slot]
                /\ skipped(index.slot - 1)
                /\ r.slot = index.slot + 1
                /\ get(r.arena, index) = None
                /\ Arena_len(r.arena) = Arena_len(self) - 1
                /\ \A h \in AllHandles :
                       h # index => get(r.arena, h) = get(self, h)
           ELSE /\ r.arena = self
                /\ skipped(Len(self.storage) - 1)

RECURSIVE IntoIter_exhaust(_, _)
IntoIter_exhaust(self, slot) ==
    LET r == IntoIter_next(self, slot) IN
    IF r.panic \/ ~ is_some(r.out)
    THEN r
    ELSE IntoIter_exhaust(r.arena, r.slot)

\* C25: into_iter() yields every Occupied entry of the consumed arena exactly
\* once, in ascending slot order, as (index, value) with the index that was
\* valid for it, yields exactly len() items, and after its first None every
\* further next() returns None.
C25_IntoIter ==
    /\ LET items == IntoIter_collect(Self, 0)
           r == IntoIter_exhaust(Self, 0)
           again == IntoIter_next(r.arena, r.slot)
       IN  /\ items = OccupiedItems(Self)
           /\ Len(items) = Arena_len(Self)
           /\ \A i \in 1 .. Len(items) :
                  get(Self, items[i][1]) = Some(items[i][2])
           /\ ~ r.panic
           /\ ~ again.panic /\ again.out = None
           /\ IntoIter_next(again.arena, again.slot).out = None
    /\ (/\ is_some(iter)
        /\ unwrap(iter).kind = "IntoIter"
        /\ ret.op = "into_iter_next"
        /\ ret.index = None)
           => LET r == IntoIter_next(Self, unwrap(iter).it.slot) IN
              ~ r.panic /\ r.out = None

\* An IntoIter has returned None with its cursor past slot 2, the last of
\* three slots to be freed.
C25_Witness ==
    /\ is_some(iter)
    /\ unwrap(iter).kind = "IntoIter"
    /\ ret.op = "into_iter_next"
    /\ ret.index = None
    /\ unwrap(iter).it.slot = 3
    /\ removal_order = << 0, 1, 2 >>

\* C26: serialization round trip.  For every reachable arena, serializing
\* produces one (generation, optional value) pair per storage slot in
\* ascending slot order, the value absent for an Empty slot, and
\* deserializing that sequence gives an arena with the same generation,
\* occupancy and value in every slot and the same len().
C26_RoundTrip ==
    /\ LET sequence == serialize(Self)
           r == deserialize(sequence)
       IN  /\ Len(sequence) = Len(storage)
           /\ \A s \in Slots(Self) :
                  /\ sequence[s + 1][1] = storage[s + 1].generation
                  /\ sequence[s + 1][2] =
                         IF is_occupied(Self, s)
                         THEN Some(storage[s + 1].value) ELSE None
           /\ r.ok
           /\ LET de == unwrap(r.arena) IN
              /\ Len(de.storage) = Len(storage)
              /\ \A s \in Slots(Self) :
                     /\ de.storage[s + 1].generation = storage[s + 1].generation
                     /\ de.storage[s + 1].tag = storage[s + 1].tag
                     /\ is_occupied(Self, s) =>
                            de.storage[s + 1].value = storage[s + 1].value
              /\ Arena_len(de) = Arena_len(Self)
              /\ serialize(de) = sequence
    /\ ret.op = "serialize" => unwrap(ret.wire) = serialize(Self)
    /\ (ret.op = "deserialize" /\ ~ ret.error) =>
           serialize(Self) = unwrap(ret.wire)

\* The arena read back from the sequence of an arena of three slots: an
\* Empty slot of generation 2 between two Occupied ones.
C26_Witness ==
    /\ ret.op = "deserialize"
    /\ ~ ret.error
    /\ unwrap(ret.wire) = << << 1, Some(2) >>, << 2, None >>, << 1, Some(1) >> >>
    /\ len = 2
    /\ is_empty_entry(Self, 1)
    /\ storage[2].generation = 2

\* C27: deserializing a sequence in which any pair has generation 0 fails
\* with an error and returns no arena at all, whatever the position of that
\* pair and whatever the other pairs contain.
C27_ZeroGenerationFails ==
    ret.op = "deserialize" =>
        LET sequence == unwrap(ret.wire)
            r == deserialize(sequence)
            invalid == \E i \in 1 .. Len(sequence) : sequence[i][1] = 0
        IN  /\ invalid => (~ r.ok /\ r.arena = None /\ ret.error)
            /\ ~ invalid => (r.ok /\ is_some(r.arena) /\ ~ ret.error)

\* deserialize has refused a sequence whose last pair, after two valid
\* ones, has generation 0.
C27_Witness ==
    /\ ret.op = "deserialize"
    /\ ret.error
    /\ unwrap(ret.wire) = << << 1, Some(1) >>, << 2, None >>, << 0, Some(2) >> >>

\* An insert of a new element into `self` by a call with outcome r: it
\* panics when there are LenMax elements already, and counts the element
\* otherwise.
C28_Counts(self, r) ==
    /\ r.panic <=> self.len = LenMax
    /\ r.arena.len = IF r.panic THEN self.len ELSE self.len + 1
    /\ r.arena.len >= self.len

\* C28: capacity overflow is fatal, never silent.  insert, insert_at and
\* insert_at_slot panic instead of wrapping when the element count would
\* exceed the largest value of len (LenMax here, u32::MAX in the code), and
\* the stored len never wraps around to a smaller number.
C28_CapacityOverflow ==
    /\ len <= LenMax
    /\ (ret.panic /\ ret.op \in {"insert", "insert_at", "insert_at_slot"})
           => len = LenMax
    /\ ~ ret.panic =>
           /\ C28_Counts(Self, insert(Self, 1))
           /\ \A slot \in 0 .. U32Max :
                  IF is_occupied(Self, slot)
                  THEN /\ ~ insert_at_slot(Self, slot, 1).panic
                       /\ insert_at_slot(Self, slot, 1).arena.len = len
                       /\ \A generation \in GenInputs :
                              LET r == insert_at(Self, Index(slot, generation), 1)
                              IN  ~ r.panic /\ r.arena.len = len
                  ELSE /\ C28_Counts(Self, insert_at_slot(Self, slot, 1))
                       /\ \A generation \in GenInputs :
                              C28_Counts(Self,
                                         insert_at(Self,
                                                   Index(slot, generation), 1))

\* insert_at_slot into the one Empty slot of an arena of LenMax elements has
\* panicked.
C28_Witness ==
    /\ ret.panic
    /\ ret.op = "insert_at_slot"
    /\ len = LenMax
    /\ Len(storage) = LenMax + 1
    /\ EmptySlots(Self) = {}

\* C29: free-list invariant.  In every state reachable by insert, insert_at,
\* insert_at_slot, remove, remove_by_slot, invalidate, retain, the steps of a
\* drain and clear, following first_free and then each Empty entry's
\* next_free visits every Empty slot exactly once, never an Occupied or
\* out-of-range slot, meets no cycle and ends in None; first_free is None
\* exactly when no slot is Empty.
C29_FreeList ==
    LET list == FreeList(Self) IN
    /\ \A i \in 1 .. Len(list) :
           /\ list[i] < Len(storage)
           /\ storage[list[i] + 1].tag = "Empty"
    /\ \A s \in EmptySlots(Self) :
           Cardinality({i \in 1 .. Len(list) : list[i] = s}) = 1
    /\ Len(list) = Cardinality(EmptySlots(Self))
    /\ IF list = << >>
       THEN first_free = None
       ELSE /\ first_free = Some(FreePointer_from_slot(list[1]))
            /\ storage[list[Len(list)] + 1].next_free = None
            /\ \A i \in 1 .. Len(list) - 1 :
                   storage[list[i] + 1].next_free =
                       Some(FreePointer_from_slot(list[i + 1]))
    /\ (first_free = None) <=> (EmptySlots(Self) = {})

\* A Drain has freed the slots 0 and 1 of an arena of three elements: the
\* free list is 1, 0 and the element of slot 2 is still to be visited.
C29_Witness ==
    /\ is_some(drain)
    /\ ret.op = "drain_next"
    /\ FreeList(Self) = << 1, 0 >>
    /\ OccupiedSlots(Self) = {2}

\* insert_at_inner, with outcome r, on the Empty slot `slot` of `self`.
C30_Spliced(self, slot, r) ==
    /\ ~ r.panic
    /\ is_occupied(r.arena, slot)
    /\ FreeList(r.arena) = SelectSeq(FreeList(self), LAMBDA s : s # slot)
    /\ Len(FreeList(r.arena)) = Len(FreeList(self)) - 1
    /\ FreeListInvariant(r.arena)

\* C30: insert_at / insert_at_slot into a slot that is Empty removes exactly
\* that slot from the free list wherever it sits (head, middle or tail):
\* afterwards the free list holds all the other Empty slots in the same
\* relative order as before, and none of the expect()/unwrap() panics of the
\* free-list walk is reachable.
C30_RemoveFromFreeList ==
    \A slot \in EmptySlots(Self), value \in Values :
        /\ C30_Spliced(Self, slot, insert_at_slot(Self, slot, value))
        /\ \A generation \in GenInputs :
               C30_Spliced(Self, slot,
                           insert_at(Self, Index(slot, generation), value))
        /\ LET r == remove_slot_from_free_list(Self, slot,
                                               storage[slot + 1].next_free)
           IN  ~ r.panic

\* The position of `slot` in the free list of `self`: 0 when it is not there.
FreeListPosition(self, slot) ==
    IF slot \in FreeListSlots(self)
    THEN CHOOSE i \in 1 .. Len(FreeList(self)) : FreeList(self)[i] = slot
    ELSE 0

\* insert_at_slot has filled slot 1 of an arena of three slots, which was
\* Empty, and has left the free list 2, 0.
C30_Witness ==
    /\ ret.op = "insert_at_slot"
    /\ ~ ret.panic
    /\ unwrap(ret.index).slot = 1
    /\ ret.value = None
    /\ Len(storage) = 3
    /\ FreeList(Self) = << 2, 0 >>

\* A state in which insert_at has a slot to take from the middle of the free
\* list, and one to take from its tail.
C30_MiddleAndTail ==
    /\ Len(FreeList(Self)) = 3
    /\ FreeListPosition(Self, 0) = 2
    /\ FreeListPosition(Self, 2) = 3

\* insert_at_inner, with outcome r, on the slot `slot` at or beyond the end
\* of the storage of `self`.
C31_Extended(self, slot, r) ==
    LET old == Len(self.storage)
        placeholders == [i \in 1 .. slot - old |-> slot - i]
    IN  /\ ~ r.panic
        /\ Len(r.arena.storage) = slot + 1
        /\ is_occupied(r.arena, slot)
        /\ \A s \in 0 .. old - 1 : r.arena.storage[s + 1] = self.storage[s + 1]
        /\ \A s \in old .. slot - 1 :
               /\ r.arena.storage[s + 1].tag = "Empty"
               /\ r.arena.storage[s + 1].generation = 1
               /\ r.arena.storage[s + 1].next_free =
                      IF s = old THEN self.first_free
                      ELSE Some(FreePointer_from_slot(s - 1))
        /\ r.arena.first_free =
               IF slot = old THEN self.first_free
               ELSE Some(FreePointer_from_slot(slot - 1))
        /\ FreeList(r.arena) = placeholders \o FreeList(self)

\* C31: insert_at / insert_at_slot at a slot at or beyond the current storage
\* length extends storage to exactly slot + 1 entries; every slot between
\* the old length and the target is an Empty entry of generation 1, the
\* placeholders are pushed onto the free list in ascending slot order (the
\* first one's next_free is the old first_free, each other one's is the
\* placeholder pushed before it, the highest is the head), and the slots
\* that were free before the call stay on the list behind them.
C31_Placeholders ==
    \A slot \in Len(storage) .. MaxSlots + 1, value \in Values :
        /\ C31_Extended(Self, slot, insert_at_slot(Self, slot, value))
        /\ \A generation \in GenInputs :
               C31_Extended(Self, slot,
                            insert_at(Self, Index(slot, generation), value))

\* insert_at_slot(2) on an arena of one slot, which was Empty, has pushed the
\* placeholder of slot 1 in front of it.
C31_Witness ==
    /\ ret.op = "insert_at_slot"
    /\ unwrap(ret.index) = Index(2, 1)
    /\ ret.value = None
    /\ Len(storage) = 3
    /\ FreeList(Self) = << 1, 0 >>
    /\ removal_order = << 0 >>
    /\ storage[2] = Empty(1, Some(FreePointer_from_slot(0)))

\* The arena read back from the serialized form of `self`.
round_trip(self) == unwrap(deserialize(serialize(self)).arena)

\* The indices n successive calls of insert return, in order.
RECURSIVE insert_sequence(_, _)
insert_sequence(self, n) ==
    IF n = 0
    THEN << >>
    ELSE LET r == insert(self, 1) IN
         IF r.panic THEN << >>
         ELSE << r.out >> \o insert_sequence(r.arena, n - 1)

\* C32 (as stated): the free-list topology survives a serialization round
\* trip.  For every reachable arena, the deserialized arena has the same
\* first_free and the same next_free in every Empty entry as the original,
\* so the same sequence of inserts returns the same sequence of indices on
\* both.
C32_TopologySurvives ==
    LET de == round_trip(Self) IN
    /\ de.first_free = first_free
    /\ \A s \in EmptySlots(Self) :
           de.storage[s + 1].next_free = storage[s + 1].next_free
    /\ \A n \in 1 .. MaxSlots :
           insert_sequence(de, n) = insert_sequence(Self, n)

\* The slots of `set` in descending order.
RECURSIVE Descending(_)
Descending(set) ==
    IF set = {}
    THEN << >>
    ELSE LET top == CHOOSE s \in set : \A t \in set : t <= s IN
         << top >> \o Descending(set \ {top})

\* C32 (amended): the deserialized arena has the Empty slots of the original
\* on its free list, in descending slot order whatever their order was in the
\* original; it is the original arena exactly when the original's free list
\* is in descending slot order, and n inserts return the same set of indices
\* on both once n is at least the number of Empty slots.
C32_FreeListRebuilt ==
    LET de == round_trip(Self) IN
    /\ FreeListInvariant(de)
    /\ FreeList(de) = Descending(EmptySlots(Self))
    /\ (de = Self) <=> (FreeList(Self) = Descending(EmptySlots(Self)))
    /\ \A n \in Cardinality(EmptySlots(Self)) .. MaxSlots :
           insert_handles(de, n) = insert_handles(Self, n)

\* An arena read back from a sequence with the Empty slots 0 and 2 around an
\* Occupied one: its free list is 2, 0.
C32_Witness ==
    /\ ret.op = "deserialize"
    /\ ~ ret.error
    /\ FreeList(Self) = << 2, 0 >>
    /\ OccupiedSlots(Self) = {1}
    /\ unwrap(ret.wire) = serialize(Self)

\* C33: the slot-indexed operations agree with the handle-based ones.  For
\* every slot s, contains_slot(s) and get_by_slot(s) are present exactly when
\* slot s is Occupied and then report the index i currently valid for s, with
\* get(i) the same value; remove_by_slot(s) returns (i, value) and leaves the
\* arena exactly as remove(i) would, and on an Empty or out-of-range slot it
\* returns absent and changes nothing.
C33_BySlot ==
    \A s \in SlotInputs :
        LET r == remove_by_slot(Self, s) IN
        IF s \in OccupiedSlots(Self)
        THEN LET i == unwrap(contains_slot(Self, s)) IN
             /\ is_some(contains_slot(Self, s))
             /\ i.slot = s
             /\ contains(Self, i)
             /\ \A h \in AllHandles : (h.slot = s /\ contains(Self, h)) => h = i
             /\ is_some(get_by_slot(Self, s))
             /\ unwrap(get_by_slot(Self, s))[1] = i
             /\ get(Self, i) = Some(unwrap(get_by_slot(Self, s))[2])
             /\ ~ r.panic
             /\ r.out = Some(<< i, unwrap(get(Self, i)) >>)
             /\ r.arena = remove(Self, i).arena
             /\ remove(Self, i).out = get(Self, i)
        ELSE /\ contains_slot(Self, s) = None
             /\ get_by_slot(Self, s) = None
             /\ ~ r.panic
             /\ r.out = None
             /\ r.arena = Self

\* remove_by_slot has taken the element of slot 1, of generation 2, out of an
\* arena of three elements.
C33_Witness ==
    /\ ret.op = "remove_by_slot"
    /\ ret.index = Some(Index(1, 2))
    /\ is_some(ret.value)
    /\ OccupiedSlots(Self) = {0, 2}
    /\ first_free = Some(FreePointer_from_slot(1))

\* No call on `self` leaves fewer storage slots than it found.
C34_NoShrink(self) ==
    LET n == Len(self.storage) IN
    /\ \A value \in Values :
           /\ Len(insert(self, value).arena.storage) >= n
           /\ \A slot \in SlotInputs :
                  Len(insert_at_slot(self, slot, value).arena.storage) >= n
           /\ \A index \in IndexInputs :
                  Len(insert_at(self, index, value).arena.storage) >= n
    /\ \A index \in IndexInputs :
           /\ Len(remove(self, index).arena.storage) = n
           /\ Len(invalidate(self, index).arena.storage) = n
    /\ \A slot \in SlotInputs :
           Len(remove_by_slot(self, slot).arena.storage) = n
    /\ \A f \in RetainInputs : Len(retain(self, f).arena.storage) = n
    /\ Len(clear(self).arena.storage) = n
    /\ Len(Drain_next(self, 0).arena.storage) = n

\* C34: storage never shrinks and grows only when needed.  No operation
\* reduces the number of storage slots, insert appends a slot only when no
\* slot is Empty, and under any sequence of insert and remove alone the
\* number of storage slots equals the largest len() the arena has ever had.
C34_Storage ==
    /\ C34_NoShrink(Self)
    /\ \A value \in Values :
           Len(insert(Self, value).arena.storage) =
               IF EmptySlots(Self) = {} THEN Len(storage) + 1
               ELSE Len(storage)
    /\ Len(storage) = max_len

\* The number of storage slots does not go down in any step.
C34_NeverShrinks == [][Len(storage') >= Len(storage)]_vars

\* An insert has reused a slot of an arena that once held three elements and
\* holds two now.
C34_Witness ==
    /\ ret.op = "insert"
    /\ len = 2
    /\ max_len = 3
    /\ Len(storage) = 3
    /\ unwrap(ret.index).generation = 2

\* get(h) is the same after the outcome `r` of a call as it is now.
C35_Keeps(r, h) == get(r.arena, h) = get(Self, h)

\* The calls on another slot than h's leave get(h) as it is.
C35_OtherSlot(h) ==
    /\ \A value \in Values : C35_Keeps(insert(Self, value), h)
    /\ \A k \in IndexInputs :
           k.slot # h.slot =>
               /\ C35_Keeps(remove(Self, k), h)
               /\ C35_Keeps(invalidate(Self, k), h)
               /\ \A value \in Values : C35_Keeps(insert_at(Self, k, value), h)
    /\ \A s \in SlotInputs :
           s # h.slot =>
               /\ C35_Keeps(remove_by_slot(Self, s), h)
               /\ \A value \in Values :
                      C35_Keeps(insert_at_slot(Self, s, value), h)

\* C35 (as stated): frame property for live handles.  For any valid handle
\* h, insert, remove, invalidate, remove_by_slot, insert_at and
\* insert_at_slot applied to another slot, and any call with an invalid k,
\* leave get(h) returning the same value.
C35_Frame_AsStated ==
    \A h \in IndexInputs :
        Validates(Self, h) =>
            /\ C35_OtherSlot(h)
            /\ \A k \in IndexInputs :
                   ~ Validates(Self, k) =>
                       /\ C35_Keeps(remove(Self, k), h)
                       /\ C35_Keeps(invalidate(Self, k), h)
                       /\ \A value \in Values :
                              C35_Keeps(insert_at(Self, k, value), h)

\* C35: frame property for live handles.  For any valid handle h, insert,
\* remove, invalidate, remove_by_slot, insert_at and insert_at_slot applied
\* to another slot, and remove and invalidate with an invalid k on any slot,
\* leave get(h) returning the same value; insert_at with an invalid k on the
\* slot of h takes the slot over, and get(h) is absent after it.
C35_Frame ==
    \A h \in IndexInputs :
        Validates(Self, h) =>
            /\ C35_OtherSlot(h)
            /\ \A k \in IndexInputs :
                   ~ Validates(Self, k) =>
                       /\ C35_Keeps(remove(Self, k), h)
                       /\ C35_Keeps(invalidate(Self, k), h)
                       /\ \A value \in Values :
                              k.slot = h.slot =>
                                  get(insert_at(Self, k, value).arena, h)
                                      = None

\* A remove with a stale index has returned nothing while its slot holds a
\* live element of a later generation, beside a second live element.
C35_Witness ==
    /\ ret.op = "remove"
    /\ ret.value = None
    /\ len = 2
    /\ \E h \in IndexInputs :
           /\ Validates(Self, h)
           /\ h.generation = 2
           /\ is_some(get(Self, h))

(***************************************************************************)
(* The caller keeps an index.                                              *)
(***************************************************************************)
\* The calls that return an Index they have made.
IssuingCalls == {"insert", "insert_at_slot", "invalidate"}

\* The caller keeps the index that insert, insert_at_slot or invalidate has
\* just returned.
Keep ==
    /\ held = None
    /\ drain = None
    /\ iter = None
    /\ ret.op \in IssuingCalls
    /\ ~ ret.panic
    /\ is_some(ret.index)
    /\ held' = Some([index |-> unwrap(ret.index), died |-> FALSE])
    /\ UNCHANGED << storage, len, first_free, max_len, drain, iter, ret,
                    bits, stale, removal_order, drain_from >>

\* Every call that changes the arena but insert_at, and Keep.
NextHandles ==
    \/ \E value \in Values : Insert(value)
    \/ \E slot \in SlotInputs, value \in Values : InsertAtSlot(slot, value)
    \/ \E index \in IndexInputs : Remove(index)
    \/ \E slot \in SlotInputs : RemoveBySlot(slot)
    \/ \E index \in IndexInputs : Invalidate(index)
    \/ \E f \in RetainInputs : Retain(f)
    \/ Clear
    \/ DrainStart
    \/ DrainNext
    \/ DrainDrop
    \/ Keep

SpecHandles == Init /\ [][NextHandles]_vars

\* C36: handles issued by insert are fresh.  The index insert returns is
\* different from every index that is valid before the call, and, unless the
\* call wraps a generation, from an index that insert, insert_at_slot or
\* invalidate returned earlier and no generation has wrapped since (insert_at
\* is never called).
C36_Fresh ==
    \A value \in Values :
        LET r == insert(Self, value) IN
        ~ r.panic =>
            /\ \A h \in IndexInputs : contains(Self, h) => r.out # h
            /\ (is_some(held) /\ ~ Wrapped(Self, r.arena)) =>
                   r.out # unwrap(held).index

\* insert has reused the slot of a kept index that is no longer in the
\* arena, and has returned the next generation for it.
C36_Witness ==
    /\ is_some(held)
    /\ unwrap(held).died
    /\ ret.op = "insert"
    /\ is_some(ret.index)
    /\ unwrap(ret.index).slot = unwrap(held).index.slot
    /\ unwrap(ret.index).generation
           = Generation_next(unwrap(held).index.generation)

\* C37: no resurrection without insert_at.  Under insert, insert_at_slot,
\* remove, remove_by_slot, invalidate, retain, drain and clear, a kept index
\* that has once not been in the arena is not in it in any later state, as
\* long as no generation has wrapped since the index was returned.
C37_NoResurrection ==
    (is_some(held) /\ unwrap(held).died) =>
        /\ ~ contains(Self, unwrap(held).index)
        /\ get(Self, unwrap(held).index) = None

\* The slot of a kept index that has died holds a live element again,
\* put there by insert_at_slot.
C37_Witness ==
    /\ is_some(held)
    /\ unwrap(held).died
    /\ is_occupied(Self, unwrap(held).index.slot)
    /\ ret.op = "insert_at_slot"
    /\ unwrap(ret.index).slot = unwrap(held).index.slot

\* The indices of a sequence of items (index, value) or (index, reference).
ItemIndices(items) == [i \in 1 .. Len(items) |-> items[i][1]]

\* C38 (as stated): Iter and IterMut are equivalent as traversals.  On every
\* reachable arena iter() and iter_mut() consumed with next() yield the same
\* sequence of indices, both equal to the ascending list of Occupied slots.
C38_SameTraversal ==
    LET a == ItemIndices(Iter_collect(Self, Arena_iter(Self)))
        b == ItemIndices(IterMut_collect(Self, Arena_iter_mut(Self)))
    IN  /\ a = b
        /\ a = ItemIndices(OccupiedItems(Self))

\* iter_mut() yields the indices of the Occupied slots in ascending order,
\* and iter() yields a prefix of them.
C38_IterMutComplete ==
    LET a == ItemIndices(Iter_collect(Self, Arena_iter(Self)))
        b == ItemIndices(IterMut_collect(Self, Arena_iter_mut(Self)))
    IN  /\ b = ItemIndices(OccupiedItems(Self))
        /\ Len(a) <= Len(b)
        /\ a = SubSeq(b, 1, Len(a))

\* Three inserts have filled an arena: iter_mut() yields three indices and
\* iter() two.
C38_Witness ==
    /\ ret.op = "insert"
    /\ len = 3
    /\ Len(IterMut_collect(Self, Arena_iter_mut(Self))) = 3
    /\ Len(Iter_collect(Self, Arena_iter(Self))) = 2

\* The Drain that next() leaves when it is called up to its first None.
RECURSIVE Drain_exhaust(_, _)
Drain_exhaust(self, slot) ==
    LET r == Drain_next(self, slot) IN
    IF r.panic \/ ~ is_some(r.out)
    THEN r
    ELSE Drain_exhaust(r.arena, r.slot)

\* The same for a DrainFilter whose predicate answers `predicate`.
RECURSIVE DrainFilter_exhaust(_, _, _)
DrainFilter_exhaust(self, slot, predicate) ==
    LET r == DrainFilter_next(self, slot, predicate) IN
    IF r.panic \/ ~ is_some(r.out)
    THEN r
    ELSE DrainFilter_exhaust(r.arena, r.slot, predicate)

\* Predicates over the slots of a storage of any length: always true, always
\* false, true for the odd slots, true for the even slots.
C39_Predicates ==
    {[s \in 0 .. U32Max |-> TRUE], [s \in 0 .. U32Max |-> FALSE],
     [s \in 0 .. U32Max |-> s % 2 = 1], [s \in 0 .. U32Max |-> s % 2 = 0]}

\* One past the last Occupied slot of `self`; 0 when there is none.
C39_Stop(self) ==
    IF OccupiedSlots(self) = {} THEN 0
    ELSE 1 + CHOOSE s \in OccupiedSlots(self) :
                 \A t \in OccupiedSlots(self) : t <= s

\* `r`, left by the first next() that returned nothing, did not panic, and
\* the next() after it returns None and leaves everything as it is.
C39_Fused(r, again) ==
    /\ ~ r.panic
    /\ r.out = None
    /\ again = r

\* Calling next() of a Drain, an IntoIter and a DrainFilter over `self` up to
\* the first None and once more.
C39_Terminates(self) ==
    /\ LET r == Drain_exhaust(self, 0) IN
       /\ C39_Fused(r, Drain_next(r.arena, r.slot))
       /\ r.slot = C39_Stop(self)
       /\ r.slot <= Len(self.storage)
    /\ LET r == IntoIter_exhaust(self, 0) IN
       /\ C39_Fused(r, IntoIter_next(r.arena, r.slot))
       /\ r.slot = C39_Stop(self)
       /\ r.slot <= Len(self.storage)
    /\ \A predicate \in C39_Predicates :
           LET r == DrainFilter_exhaust(self, 0, predicate) IN
           /\ C39_Fused(r, DrainFilter_next(r.arena, r.slot, predicate))
           /\ r.slot = Len(self.storage)

\* C39 (as stated): every call to next() of Drain, IntoIter and DrainFilter
\* terminates without panicking on any reachable arena.  Drain and IntoIter
\* stop scanning as soon as the arena is empty and never advance their slot
\* cursor past the storage length, DrainFilter stops at the storage length,
\* the unwrap of remove(index) inside DrainFilter::next never fails, and
\* after the first None every later next() is None.
C39_NextTerminates == ~ ret.panic => C39_Terminates(Self)

\* The same on the arenas whose storage ends before slot U32Max.
C39_BelowLastSlot ==
    (~ ret.panic /\ Len(storage) <= U32Max) => C39_Terminates(Self)

\* insert_at_slot has put an element into slot U32Max: Drain::next and
\* IntoIter::next overflow their cursor on the way to it, and
\* DrainFilter::next as well.
C39_Witness ==
    /\ ret.op = "insert_at_slot"
    /\ ~ ret.panic
    /\ is_occupied(Self, U32Max)
    /\ len = 1
    /\ Drain_exhaust(Self, 0).panic
    /\ IntoIter_exhaust(Self, 0).panic
    /\ DrainFilter_exhaust(Self, 0, [s \in 0 .. U32Max |-> TRUE]).panic

\* retain with a predicate that keeps nothing.
C40_KeepNone == [s \in 0 .. U32Max |-> FALSE]

\* C40 (as stated): removal never panics on an occupied slot.  For every
\* slot that insert, insert_at or insert_at_slot can make Occupied, the
\* largest representable slot number included, remove, remove_by_slot and
\* retain complete without panicking; equivalently FreePointer::from_slot(s)
\* succeeds with from_slot(s).slot() = s for every slot s of the storage.
C40_RemovalNeverPanics ==
    ~ ret.panic =>
        /\ \A s \in OccupiedSlots(Self) :
               /\ ~ remove_by_slot(Self, s).panic
               /\ ~ remove(Self, Index(s, storage[s + 1].generation)).panic
        /\ ~ retain(Self, C40_KeepNone).panic
        /\ \A s \in Slots(Self) :
               /\ ~ FreePointer_from_slot_panics(s)
               /\ FreePointer_slot(FreePointer_from_slot(s)) = s

\* The same for the slots below U32Max.
C40_BelowLastSlot ==
    ~ ret.panic =>
        /\ \A s \in OccupiedSlots(Self) \ {U32Max} :
               /\ ~ remove_by_slot(Self, s).panic
               /\ ~ remove(Self, Index(s, storage[s + 1].generation)).panic
        /\ ~ is_occupied(Self, U32Max) => ~ retain(Self, C40_KeepNone).panic
        /\ \A s \in Slots(Self) \ {U32Max} :
               /\ ~ FreePointer_from_slot_panics(s)
               /\ FreePointer_slot(FreePointer_from_slot(s)) = s

\* remove_by_slot(U32Max) has panicked: the entry of slot U32Max is Empty,
\* it is not on the free list, and len still counts it.
C40_Witness ==
    /\ ret.op = "remove_by_slot"
    /\ ret.panic
    /\ Len(storage) = U32Max + 1
    /\ storage[U32Max + 1].tag = "Empty"
    /\ first_free # Some(FreePointer_from_slot(U32Max))
    /\ len = Cardinality(OccupiedSlots(Self)) + 1

====
